---- MODULE Spec2Model ----
(***************************************************************************)
(* Model of Comphi::Vulkan::GraphicsContext (GraphicsContext.cpp): the     *)
(* start-up sequence Init, the per-frame protocol Draw, the resize         *)
(* notification ResizeFramebuffer, recreateSwapChain and CleanUp, together *)
(* with the GPU and the window system they talk to (Spec).                 *)
(*                                                                         *)
(* The CPU side is one thread: `pc' is the statement it is about to        *)
(* execute.  The GPU (GPUComplete, PresentComplete) and the window system  *)
(* (WindowSizeChange) run concurrently with it.  GLFW delivers callbacks   *)
(* only from its event-processing calls, on the calling thread, so         *)
(* ResizeFramebuffer runs between two Draw calls or inside glfwWaitEvents. *)
(*                                                                         *)
(* Three parts are studied on their own, each over the inputs it can be    *)
(* given: swapchain creation (SpecSwap), physical device selection         *)
(* (SpecDevice) and ImageBuffer's layout transitions (SpecImage).  Each    *)
(* has its own variables, which the other specifications keep at rest.     *)
(***************************************************************************)
EXTENDS Integers, Sequences, FiniteSets, TLC

\* Number of frame slots (F), set in GraphicsContext.h.  Every definition below
\* is generic in its value.
MAX_FRAMES_IN_FLIGHT == 2

\* Number of Draw calls explored.
MaxDraws == 3

Slots == 0 .. (MAX_FRAMES_IN_FLIGHT - 1)

VK_SUCCESS == "VK_SUCCESS"
VK_SUBOPTIMAL_KHR == "VK_SUBOPTIMAL_KHR"
VK_ERROR_OUT_OF_DATE_KHR == "VK_ERROR_OUT_OF_DATE_KHR"
VK_ERROR_DEVICE_LOST == "VK_ERROR_DEVICE_LOST"

\* Codes vkAcquireNextImageKHR (infinite timeout) and vkQueuePresentKHR return.
VkResults == {VK_SUCCESS, VK_SUBOPTIMAL_KHR, VK_ERROR_OUT_OF_DATE_KHR, VK_ERROR_DEVICE_LOST}

\* The acquire codes with which an image was acquired (and the semaphore will
\* be signaled); with every other code pImageIndex is left unwritten.
ImageAcquired(r) == r \in {VK_SUCCESS, VK_SUBOPTIMAL_KHR}

\* Surface capabilities (minImageCount, maxImageCount) the driver may report.
SurfaceCaps == { [minImageCount |-> 1, maxImageCount |-> 0],
                 [minImageCount |-> 1, maxImageCount |-> 1] }

VARIABLES
    pc,                 \* statement the CPU thread executes next
    step,               \* index into the sequence of steps being executed
    ret,                \* where recreateSwapChain returns to
    currentFrame,       \* GraphicsContext::currentFrame
    framebufferResized, \* GraphicsContext::framebufferResized
    inFlightFences,     \* slot -> fence is signaled
    imageAvailableSemaphores, \* slot -> semaphore is signaled
    renderFinishedSemaphores, \* slot -> semaphore is signaled
    commandBuffers,     \* slot -> what is recorded in the slot's command buffer
    uniformBuffers,     \* slot -> number of the Draw call that last wrote drawBuffers[2+slot]
    inFlight,           \* slot -> submissions made with the slot's fence, not yet completed
    presentPending,     \* slot -> a present waits on the slot's render-finished semaphore
    result,             \* Draw's local `result'
    imageIndex,         \* Draw's local `imageIndex'
    winZero,            \* the window's framebuffer has a zero width or height
    sizeZero,           \* recreateSwapChain's locals: width == 0 || height == 0
    handles,            \* object -> number of times it was created
    alive,              \* objects created and not destroyed
    swapChainImages,    \* number of images of the swapchain
    swapChainImageViews,\* number of image views
    swapChainFramebuffers, \* number of framebuffers
    call,               \* history: what the current Draw call has done
    rcLog,              \* history: steps of the last recreateSwapChain, in order
    draws,              \* history: Draw calls started
    submits,            \* history: successful vkQueueSubmit calls
    presents,           \* history: vkQueuePresentKHR calls
    signals,            \* history: fence signals by the GPU
    clean,              \* history: no acquire/present/submit failure and no resize so far
    failed              \* history: an acquire or present reported a recoverable non-success code

\* State of the parts that are studied on their own: swapchain creation.
VARIABLES
    surfaceSupport,     \* what querySwapChainSupport(physicalDevice) reports now
    framebufferSize,    \* what glfwGetFramebufferSize reports now
    chain,              \* the swapchain createSwapChain made last
    chainInputs,        \* history: the support details and size that creation read
    chainBefore,        \* history: the swapchain made by the creation before it
    inputsBefore        \* history: what that earlier creation read

swapVars == << surfaceSupport, framebufferSize, chain, chainInputs, chainBefore, inputsBefore >>

\* ... and physical device selection.
VARIABLES
    devices,            \* what vkEnumeratePhysicalDevices returns, in its order
    pickPc,             \* where pickPhysicalDevice (and Init after it) stands
    deviceIndex,        \* position of the loop over the devices (from 1)
    physicalDevice,     \* GraphicsContext::physicalDevice: VK_NULL_HANDLE or a position in devices
    queueFamilyIndices, \* GraphicsContext::queueFamilyIndices
    lastScan,           \* history: the last isDeviceSuitable call
    logicalDevice       \* createLogicalDevice has made the logical device

deviceVars == << devices, pickPc, deviceIndex, physicalDevice, queueFamilyIndices, lastScan,
                 logicalDevice >>

\* ... and the layout transitions of an ImageBuffer.
VARIABLES
    imageLayout,        \* ImageBuffer::imageLayout
    imageLog,           \* history: the transitionImageLayout calls made, in order
    imageKind,          \* which initialiser runs or ran: "texture", "depth", "plain"
    imagePc,            \* "new", "running", "ready", "load_failed" or "threw"
    imageStep,          \* position in the initialiser's statements
    imageOps            \* history: the calls made for the image, in order

imageVars == << imageLayout, imageLog, imageKind, imagePc, imageStep, imageOps >>
auxVars == << swapVars, deviceVars, imageVars >>

coreVars == << pc, step, ret, currentFrame, framebufferResized, inFlightFences,
           imageAvailableSemaphores, renderFinishedSemaphores, commandBuffers,
           uniformBuffers, inFlight, presentPending, result, imageIndex, winZero,
           sizeZero, handles, alive, swapChainImages, swapChainImageViews,
           swapChainFramebuffers, call, rcLog, draws, submits, presents, signals,
           clean, failed >>

vars == << coreVars, auxVars >>

\* What each study leaves alone.
exceptSwap == << coreVars, deviceVars, imageVars >>
exceptDevice == << coreVars, swapVars, imageVars >>
exceptImage == << coreVars, swapVars, deviceVars >>

gpuVars == << inFlightFences, imageAvailableSemaphores, renderFinishedSemaphores,
              inFlight, presentPending, signals >>
slotVars == << commandBuffers, uniformBuffers >>
objVars == << handles, alive, swapChainImages, swapChainImageViews, swapChainFramebuffers >>
histVars == << call, rcLog, draws, submits, presents, clean, failed >>
localVars == << result, imageIndex, sizeZero, step, ret >>

\* Objects owned by the context.
SwapChainObjects == {"swapChain", "imageViews", "framebuffers"}
Objects == {"instance", "debugMessenger", "surface", "physicalDevice", "logicalDevice",
            "swapChain", "imageViews", "renderPass", "graphicsPipeline", "framebuffers",
            "graphicsCommandPool", "transferCommandPool", "drawBuffers",
            "descriptorPool", "descriptorSets", "commandBuffers", "syncObjects"}

NoCall == [slot |-> 0, acquire |-> "none", present |-> "none", resizedAtPresent |-> FALSE,
           fenceReset |-> FALSE, recorded |-> FALSE, uboWritten |-> FALSE,
           submitted |-> FALSE, presented |-> FALSE, recreated |-> FALSE,
           fatal |-> "none", recreations |-> 0, waited |-> FALSE, notified |-> FALSE,
           trace |-> << >>, touched |-> {}]

\* The history of a Draw call after steps `names', which used the per-slot
\* objects `touches' (pairs of a use and an index).
Did(c, names, touches) ==
    [c EXCEPT !.trace = @ \o names, !.touched = @ \cup touches]

NotRecorded == [state |-> "initial", framebuffer |-> 0, descriptorSet |-> 0, uniformBuffer |-> 0]

----------------------------------------------------------------------------
(* Init *)

\* Mutant: the framebuffers are created before the render pass.
InitSteps_FramebuffersFirst ==
    << "instance", "debugMessenger", "surface", "physicalDevice", "logicalDevice",
       "swapChain", "imageViews", "framebuffers", "renderPass", "graphicsPipeline",
       "commandPools", "drawBuffers", "descriptorPool", "descriptorSets",
       "commandBuffers", "syncObjects" >>

\* GraphicsContext::Init: the creation calls in program order.
InitSteps == << "instance", "debugMessenger", "surface", "physicalDevice", "logicalDevice",
                "swapChain", "imageViews", "renderPass", "graphicsPipeline", "framebuffers",
                "commandPools", "drawBuffers", "descriptorPool", "descriptorSets",
                "commandBuffers", "syncObjects" >>

\* Mutant: the image count is not reduced to maxImageCount.
SwapChainImageCount_NoLimit(c) == c.minImageCount + 1

\* createSwapChain: the image count requested from (and here granted by) the driver.
SwapChainImageCount(c) ==
    LET imageCount == c.minImageCount + 1
    IN  IF c.maxImageCount > 0 /\ imageCount > c.maxImageCount
        THEN c.maxImageCount
        ELSE imageCount

\* The objects a creation call makes: createCommandPools makes both pools.
Made(o) ==
    IF o = "commandPools" THEN {"graphicsCommandPool", "transferCommandPool"} ELSE {o}

\* The objects a creation call reads: the handles and members its body names.
Uses(o) ==
    CASE o = "instance" -> {}
      [] o = "debugMessenger" -> {"instance"}
      [] o = "surface" -> {"instance"}
      [] o = "physicalDevice" -> {"instance", "surface"}
      [] o = "logicalDevice" -> {"physicalDevice"}
      [] o = "swapChain" -> {"physicalDevice", "surface", "logicalDevice"}
      [] o = "imageViews" -> {"logicalDevice", "swapChain"}
      [] o = "renderPass" -> {"logicalDevice", "swapChain"}
      [] o = "graphicsPipeline" -> {"logicalDevice", "renderPass"}
      [] o = "framebuffers" -> {"logicalDevice", "swapChain", "imageViews", "renderPass"}
      [] o = "commandPools" -> {"physicalDevice", "logicalDevice"}
      [] o = "drawBuffers" -> {"physicalDevice", "logicalDevice",
                               "graphicsCommandPool", "transferCommandPool"}
      [] o = "descriptorPool" -> {"logicalDevice"}
      [] o = "descriptorSets" -> {"logicalDevice", "descriptorPool", "graphicsPipeline",
                                  "drawBuffers"}
      [] o = "commandBuffers" -> {"logicalDevice", "graphicsCommandPool"}
      [] o = "syncObjects" -> {"logicalDevice"}

\* The effect of one creation call on the context's objects.
Create(o) ==
    /\ handles' = [x \in Objects |-> IF x \in Made(o) THEN handles[x] + 1 ELSE handles[x]]
    /\ alive' = alive \cup Made(o)
    /\ \E c \in SurfaceCaps :       \* querySwapChainSupport(physicalDevice)
          swapChainImages' = IF o = "swapChain" THEN SwapChainImageCount(c)
                             ELSE swapChainImages
    /\ swapChainImageViews' = IF o = "imageViews" THEN swapChainImages
                              ELSE swapChainImageViews
    /\ swapChainFramebuffers' = IF o = "framebuffers" THEN swapChainImageViews
                                ELSE swapChainFramebuffers

\* createSyncObjects: the fences are created signaled, the semaphores unsignaled.
createSyncObjects ==
    /\ inFlightFences' = [s \in Slots |-> TRUE]
    /\ imageAvailableSemaphores' = [s \in Slots |-> FALSE]
    /\ renderFinishedSemaphores' = [s \in Slots |-> FALSE]

\* The context before GraphicsContext::Init has made its first call.
InitContext ==
    /\ pc = "init"
    /\ step = 1
    /\ ret = "none"
    /\ currentFrame = 0
    /\ framebufferResized = FALSE
    /\ inFlightFences = [s \in Slots |-> FALSE]
    /\ imageAvailableSemaphores = [s \in Slots |-> FALSE]
    /\ renderFinishedSemaphores = [s \in Slots |-> FALSE]
    /\ commandBuffers = [s \in Slots |-> NotRecorded]
    /\ uniformBuffers = [s \in Slots |-> 0]
    /\ inFlight = [s \in Slots |-> 0]
    /\ presentPending = [s \in Slots |-> FALSE]
    /\ result = VK_SUCCESS
    /\ imageIndex = 0
    /\ winZero = FALSE
    /\ sizeZero = FALSE
    /\ handles = [o \in Objects |-> 0]
    /\ alive = {}
    /\ swapChainImages = 0
    /\ swapChainImageViews = 0
    /\ swapChainFramebuffers = 0
    /\ call = NoCall
    /\ rcLog = << >>
    /\ draws = 0
    /\ submits = 0
    /\ presents = 0
    /\ signals = 0
    /\ clean = TRUE
    /\ failed = FALSE

NoChain == [images |-> 0]
NoInputs == [size |-> "none"]

\* The swapchain study is at rest.
SwapAtRest ==
    /\ surfaceSupport = "unused"
    /\ framebufferSize = "unused"
    /\ chain = NoChain
    /\ chainInputs = NoInputs
    /\ chainBefore = NoChain
    /\ inputsBefore = NoInputs

VK_NULL_HANDLE == 0
NoIndex == -1               \* an empty std::optional<uint32_t>
NoIndices == [graphicsFamily |-> NoIndex, transferFamily |-> NoIndex, presentFamily |-> NoIndex]

NoScan == [device |-> 0, examined |-> 0, suitable |-> FALSE]

\* The device study is at rest.
DeviceAtRest ==
    /\ devices = << >>
    /\ pickPc = "unused"
    /\ deviceIndex = 1
    /\ physicalDevice = VK_NULL_HANDLE
    /\ queueFamilyIndices = NoIndices
    /\ lastScan = NoScan
    /\ logicalDevice = FALSE

VK_IMAGE_LAYOUT_UNDEFINED == "VK_IMAGE_LAYOUT_UNDEFINED"

\* The image study is at rest: no ImageBuffer has been initialised, no transition was asked for.
ImageAtRest ==
    /\ imageLayout = VK_IMAGE_LAYOUT_UNDEFINED
    /\ imageLog = << >>
    /\ imageKind = "none"
    /\ imagePc = "new"
    /\ imageStep = 1
    /\ imageOps = << >>

Init ==
    /\ InitContext
    /\ SwapAtRest
    /\ DeviceAtRest
    /\ ImageAtRest

\* One creation call of GraphicsContext::Init.
InitStep ==
    /\ pc = "init"
    /\ Create(InitSteps[step])
    /\ IF InitSteps[step] = "syncObjects"
       THEN createSyncObjects
       ELSE UNCHANGED << inFlightFences, imageAvailableSemaphores, renderFinishedSemaphores >>
    /\ IF step = Len(InitSteps)
       THEN pc' = "idle" /\ step' = 1
       ELSE pc' = "init" /\ step' = step + 1
    /\ UNCHANGED << auxVars, ret, currentFrame, framebufferResized, commandBuffers, uniformBuffers,
                    inFlight, presentPending, signals, result, imageIndex, winZero,
                    sizeZero, histVars >>

----------------------------------------------------------------------------
(* The GPU and the window system *)

\* The graphics queue executes a submission made on slot s: it waits on the
\* slot's image-available semaphore, runs the command buffer, then signals the
\* slot's render-finished semaphore and in-flight fence.
GPUComplete(s) ==
    /\ inFlight[s] > 0
    /\ imageAvailableSemaphores[s]
    /\ imageAvailableSemaphores' = [imageAvailableSemaphores EXCEPT ![s] = FALSE]
    /\ renderFinishedSemaphores' = [renderFinishedSemaphores EXCEPT ![s] = TRUE]
    /\ inFlightFences' = [inFlightFences EXCEPT ![s] = TRUE]
    /\ inFlight' = [inFlight EXCEPT ![s] = @ - 1]
    /\ signals' = signals + 1
    /\ UNCHANGED << auxVars, pc, currentFrame, framebufferResized, slotVars, presentPending,
                    winZero, objVars, histVars, localVars >>

\* The presentation engine takes a queued present of slot s once the slot's
\* render-finished semaphore is signaled.
PresentComplete(s) ==
    /\ presentPending[s]
    /\ renderFinishedSemaphores[s]
    /\ renderFinishedSemaphores' = [renderFinishedSemaphores EXCEPT ![s] = FALSE]
    /\ presentPending' = [presentPending EXCEPT ![s] = FALSE]
    /\ UNCHANGED << auxVars, pc, currentFrame, framebufferResized, slotVars, inFlightFences,
                    imageAvailableSemaphores, inFlight, signals,
                    winZero, objVars, histVars, localVars >>

\* The user minimizes or restores the window.
WindowSizeChange ==
    /\ pc # "init"
    /\ winZero' = ~winZero
    /\ UNCHANGED << auxVars, pc, currentFrame, framebufferResized, slotVars, gpuVars,
                    objVars, histVars, localVars >>

\* GraphicsContext::ResizeFramebuffer, the framebuffer-size callback.
ResizeFramebuffer ==
    /\ pc \in {"idle", "rc_events"}
    /\ framebufferResized' = TRUE
    /\ clean' = FALSE
    /\ call' = IF pc = "rc_events" THEN [call EXCEPT !.notified = TRUE] ELSE call
    /\ UNCHANGED << auxVars, pc, currentFrame, slotVars, gpuVars, winZero, objVars,
                    rcLog, draws, submits, presents, failed, localVars >>

\* Mutant: vkDeviceWaitIdle returns at once.
DeviceIdle_NoWait == TRUE

\* vkDeviceWaitIdle returns once no queue has outstanding work.
DeviceIdle == \A s \in Slots : inFlight[s] = 0 /\ ~presentPending[s]

----------------------------------------------------------------------------
(* Draw *)

\* Mutant: Draw does not wait for the slot's fence.
FenceWaitReturns_NoWait(s) == TRUE

\* vkWaitForFences(inFlightFences[s], VK_TRUE, UINT64_MAX) returns.
FenceWaitReturns(s) == inFlightFences[s]

\* The branch after vkAcquireNextImageKHR.
AcquireOutcome(r) ==
    IF r # VK_SUCCESS
    THEN "continue"                         \* logged only
    ELSE IF r = VK_ERROR_OUT_OF_DATE_KHR
         THEN "recreate"
         ELSE IF r # VK_SUCCESS /\ r # VK_SUBOPTIMAL_KHR
              THEN "throw"
              ELSE "continue"

\* The branch after vkQueueSubmit.
SubmitOutcome(ok) == IF ~ok THEN "throw" ELSE "present"

\* Mutant: a suboptimal present does not recreate the swapchain.
PresentNeedsRecreate_NoSuboptimal(r, resized) ==
    r = VK_ERROR_OUT_OF_DATE_KHR \/ resized

\* The condition under which Draw recreates the swapchain after the present.
PresentNeedsRecreate(r, resized) ==
    r = VK_ERROR_OUT_OF_DATE_KHR \/ r = VK_SUBOPTIMAL_KHR \/ resized

\* Mutant: the present result is not checked for hard failures.
PresentOutcome_NoThrow(r, resized) ==
    IF r = VK_ERROR_OUT_OF_DATE_KHR \/ r = VK_SUBOPTIMAL_KHR \/ resized
    THEN "recreate"
    ELSE "advance"

\* The branch after vkQueuePresentKHR.
PresentOutcome(r, resized) ==
    IF PresentNeedsRecreate(r, resized)
    THEN "recreate"
    ELSE IF r # VK_SUCCESS THEN "throw" ELSE "advance"

\* Mutant: the flag is left as it is.
ResizedFlagAtRecreate_Kept(flag) == flag

\* framebufferResized = false, before recreateSwapChain is entered from the present step.
ResizedFlagAtRecreate(flag) == FALSE

\* Mutant: the slot index is not advanced.
NextFrame_Stuck(f) == f

\* currentFrame = (currentFrame + 1) % MAX_FRAMES_IN_FLIGHT
NextFrame(f) == (f + 1) % MAX_FRAMES_IN_FLIGHT

\* The application calls Draw.
DrawBegin ==
    /\ pc = "idle"
    /\ draws < MaxDraws
    /\ pc' = "wait"
    /\ draws' = draws + 1
    /\ call' = [NoCall EXCEPT !.slot = currentFrame]
    /\ rcLog' = << >>
    /\ UNCHANGED << auxVars, currentFrame, framebufferResized, slotVars, gpuVars, winZero,
                    objVars, submits, presents, clean, failed, localVars >>

\* vkWaitForFences
WaitForFences ==
    /\ pc = "wait"
    /\ FenceWaitReturns(currentFrame)
    /\ call' = Did(call, << "waitForFences" >>, {<< "wait.fence", currentFrame >>})
    /\ pc' = "acquire"
    /\ UNCHANGED << auxVars, currentFrame, framebufferResized, slotVars, gpuVars, winZero,
                    objVars, rcLog, draws, submits, presents, clean, failed, localVars >>

\* vkAcquireNextImageKHR and the branch on its result.  With a failure code the
\* driver leaves imageIndex unwritten: the local is uninitialized and may hold
\* any value, in range or not.
AcquireNextImage ==
    /\ pc = "acquire"
    /\ \E r \in VkResults, idx \in 0 .. swapChainImages :
        /\ ImageAcquired(r) => idx < swapChainImages
        /\ result' = r
        /\ imageIndex' = idx
        /\ imageAvailableSemaphores' =
              IF ImageAcquired(r)
              THEN [imageAvailableSemaphores EXCEPT ![currentFrame] = TRUE]
              ELSE imageAvailableSemaphores
        /\ call' = Did([call EXCEPT !.acquire = r,
                                    !.recreated = (AcquireOutcome(r) = "recreate"),
                                    !.fatal = IF AcquireOutcome(r) = "throw" THEN "acquire" ELSE @],
                       << "acquireNextImage" >>, {<< "acquire.semaphore", currentFrame >>})
        /\ clean' = (clean /\ r = VK_SUCCESS)
        /\ failed' = (failed \/ r \in {VK_ERROR_OUT_OF_DATE_KHR, VK_SUBOPTIMAL_KHR})
        /\ pc' = CASE AcquireOutcome(r) = "recreate" -> "rc_size"
                   [] AcquireOutcome(r) = "throw" -> "fatal"
                   [] OTHER -> "reset"
        /\ ret' = IF AcquireOutcome(r) = "recreate" THEN "idle" ELSE ret
    /\ UNCHANGED << auxVars, currentFrame, framebufferResized, slotVars, inFlightFences,
                    renderFinishedSemaphores, inFlight, presentPending, signals,
                    winZero, objVars, rcLog, draws, submits, presents,
                    sizeZero, step >>

\* vkResetFences
ResetFences ==
    /\ pc = "reset"
    /\ inFlightFences' = [inFlightFences EXCEPT ![currentFrame] = FALSE]
    /\ call' = Did([call EXCEPT !.fenceReset = TRUE],
                   << "resetFences" >>, {<< "reset.fence", currentFrame >>})
    /\ pc' = "record"
    /\ UNCHANGED << auxVars, currentFrame, framebufferResized, slotVars, imageAvailableSemaphores,
                    renderFinishedSemaphores, inFlight, presentPending, signals,
                    winZero, objVars, rcLog, draws, submits, presents, clean,
                    failed, localVars >>

\* createDescriptorSet: descriptorSets[i] is bound to drawBuffers[2 + i].
DescriptorSetBuffer(i) == 2 + i

\* Mutant: the indexed draw is recorded before the render pass begins.
recordCommandBufferSteps_DrawFirst ==
    << "beginCommandBuffer", "drawIndexed", "beginRenderPass", "bindPipeline",
       "bindVertexBuffers", "bindIndexBuffer", "setViewport", "setScissor",
       "bindDescriptorSets", "endRenderPass", "endCommandBuffer" >>

\* recordCommandBuffer: the commands in program order.
recordCommandBufferSteps ==
    << "beginCommandBuffer", "beginRenderPass", "bindPipeline", "bindVertexBuffers",
       "bindIndexBuffer", "setViewport", "setScissor", "bindDescriptorSets",
       "drawIndexed", "endRenderPass", "endCommandBuffer" >>

\* vkResetCommandBuffer and recordCommandBuffer(commandBuffers[currentFrame], imageIndex)
RecordCommandBuffer ==
    /\ pc = "record"
    /\ commandBuffers' = [commandBuffers EXCEPT ![currentFrame] =
                            [state |-> "executable", framebuffer |-> imageIndex,
                             descriptorSet |-> currentFrame,
                             uniformBuffer |-> DescriptorSetBuffer(currentFrame)]]
    /\ call' = Did([call EXCEPT !.recorded = TRUE],
                   << "resetCommandBuffer" >> \o recordCommandBufferSteps,
                   { << "reset.commandBuffer", currentFrame >>,
                     << "record.commandBuffer", currentFrame >>,
                     << "record.descriptorSet", currentFrame >> })
    /\ pc' = "update"
    /\ UNCHANGED << auxVars, currentFrame, framebufferResized, uniformBuffers, gpuVars, winZero,
                    objVars, rcLog, draws, submits, presents, clean, failed,
                    localVars >>

\* Mutant: every slot writes the first uniform buffer.
UniformBufferIndex_First(currentImage) == 2

\* drawBuffers[2 + currentImage], the buffer updateUniformBuffer writes.
UniformBufferIndex(currentImage) == 2 + currentImage

\* updateUniformBuffer(currentFrame): map, memcpy, unmap of drawBuffers[2 + currentFrame]
UpdateUniformBuffer ==
    /\ pc = "update"
    /\ uniformBuffers' = [uniformBuffers EXCEPT ![currentFrame] = draws]
    /\ call' = Did([call EXCEPT !.uboWritten = TRUE],
                   << "updateUniformBuffer" >>,
                   {<< "update.drawBuffer", UniformBufferIndex(currentFrame) >>})
    /\ pc' = "submit"
    /\ UNCHANGED << auxVars, currentFrame, framebufferResized, commandBuffers, gpuVars, winZero,
                    objVars, rcLog, draws, submits, presents, clean, failed,
                    localVars >>

\* vkQueueSubmit(graphicsQueue, ..., inFlightFences[currentFrame]) and its check
QueueSubmit ==
    /\ pc = "submit"
    /\ \E ok \in BOOLEAN :
        /\ inFlight' = IF ok THEN [inFlight EXCEPT ![currentFrame] = @ + 1] ELSE inFlight
        /\ submits' = IF ok THEN submits + 1 ELSE submits
        /\ call' = Did([call EXCEPT !.submitted = ok,
                                    !.fatal = IF SubmitOutcome(ok) = "throw" THEN "submit" ELSE @],
                       << "queueSubmit" >>,
                       { << "submit.wait", currentFrame >>,
                         << "submit.commandBuffer", currentFrame >>,
                         << "submit.signal", currentFrame >>,
                         << "submit.fence", currentFrame >> })
        /\ clean' = (clean /\ ok)
        /\ pc' = IF SubmitOutcome(ok) = "throw" THEN "fatal" ELSE "present"
    /\ UNCHANGED << auxVars, currentFrame, framebufferResized, slotVars, inFlightFences,
                    imageAvailableSemaphores, renderFinishedSemaphores, presentPending,
                    signals, winZero, objVars, rcLog, draws, presents, failed,
                    localVars >>

\* vkQueuePresentKHR(presentQueue, ...), waiting on renderFinishedSemaphores[currentFrame]
QueuePresent ==
    /\ pc = "present"
    /\ \E r \in VkResults :
        /\ result' = r
        /\ call' = Did([call EXCEPT !.presented = TRUE, !.present = r],
                       << "queuePresent" >>, {<< "present.wait", currentFrame >>})
        /\ clean' = (clean /\ r = VK_SUCCESS)
        /\ failed' = (failed \/ r \in {VK_ERROR_OUT_OF_DATE_KHR, VK_SUBOPTIMAL_KHR})
    /\ presentPending' = [presentPending EXCEPT ![currentFrame] = TRUE]
    /\ presents' = presents + 1
    /\ pc' = "present_check"
    /\ UNCHANGED << auxVars, currentFrame, framebufferResized, slotVars, inFlightFences,
                    imageAvailableSemaphores, renderFinishedSemaphores, inFlight,
                    signals, winZero, objVars, rcLog, draws, submits,
                    imageIndex, sizeZero, step, ret >>

\* Mutant: Draw returns when the recreation after the present is done.
AfterPresentRecreate_Return == "idle"

\* The statement that follows recreateSwapChain in the branch after the
\* present: the slot index is advanced.
AfterPresentRecreate == "advance"

\* The branch on the present result and the resize flag.
PresentCheck ==
    /\ pc = "present_check"
    /\ call' = [call EXCEPT
                  !.resizedAtPresent = framebufferResized,
                  !.recreated = (PresentOutcome(result, framebufferResized) = "recreate"),
                  !.fatal = IF PresentOutcome(result, framebufferResized) = "throw"
                            THEN "present" ELSE @]
    /\ IF PresentOutcome(result, framebufferResized) = "recreate"
       THEN /\ framebufferResized' = ResizedFlagAtRecreate(framebufferResized)
            /\ pc' = "rc_size"
            /\ ret' = AfterPresentRecreate
       ELSE /\ pc' = IF PresentOutcome(result, framebufferResized) = "throw"
                     THEN "fatal" ELSE "advance"
            /\ UNCHANGED << framebufferResized, ret >>
    /\ UNCHANGED << auxVars, currentFrame, slotVars, gpuVars, winZero, objVars, rcLog,
                    draws, submits, presents, clean, failed, result, imageIndex,
                    sizeZero, step >>

\* currentFrame = (currentFrame + 1) % MAX_FRAMES_IN_FLIGHT; Draw returns.
AdvanceFrame ==
    /\ pc = "advance"
    /\ currentFrame' = NextFrame(currentFrame)
    /\ pc' = "idle"
    /\ result' = VK_SUCCESS /\ imageIndex' = 0 /\ ret' = "none"   \* the locals die
    /\ call' = NoCall
    /\ rcLog' = << >>
    /\ UNCHANGED << auxVars, framebufferResized, slotVars, gpuVars, winZero, objVars,
                    draws, submits, presents, clean, failed, sizeZero, step >>

----------------------------------------------------------------------------
(* recreateSwapChain *)

\* Mutant: cleanupSwapChain is entered without vkDeviceWaitIdle.
AfterSizeLoop_NoIdleWait == "rc_cleanup"

\* The statement that follows the minimized-window loop: vkDeviceWaitIdle.
AfterSizeLoop == "rc_idle"

\* cleanupSwapChain: the destroy calls in program order.
cleanupSwapChainSteps == << "framebuffers", "imageViews", "swapChain" >>

\* Mutant: the image views are not rebuilt.
RebuildSteps_NoViews == << "swapChain", "framebuffers" >>

\* Mutant: the render pass is rebuilt with the swapchain.
RebuildSteps_WithRenderPass == << "swapChain", "imageViews", "renderPass", "framebuffers" >>

\* recreateSwapChain: the creation calls that follow cleanupSwapChain, in program order.
RebuildSteps == << "swapChain", "imageViews", "framebuffers" >>

\* int width = 0, height = 0; glfwGetFramebufferSize(...)
RecreateGetSize ==
    /\ pc = "rc_size"
    /\ sizeZero' = winZero
    /\ rcLog' = << >>
    /\ call' = [call EXCEPT !.recreations = @ + 1]
    /\ pc' = "rc_loop"
    /\ UNCHANGED << auxVars, currentFrame, framebufferResized, slotVars, gpuVars, winZero,
                    objVars, draws, submits, presents, clean, failed, result,
                    imageIndex, step, ret >>

\* Mutant: the loop body is never entered.
SizeLoopRuns_Never(zero) == FALSE

\* The loop condition width == 0 || height == 0, on the size last read.
SizeLoopRuns(zero) == zero

\* while (width == 0 || height == 0)
RecreateLoopTest ==
    /\ pc = "rc_loop"
    /\ IF SizeLoopRuns(sizeZero)
       THEN pc' = "rc_resize" /\ rcLog' = rcLog
       ELSE pc' = AfterSizeLoop /\ rcLog' = Append(rcLog, << "size", "nonzero" >>)
    /\ UNCHANGED << auxVars, currentFrame, framebufferResized, slotVars, gpuVars, winZero,
                    objVars, call, draws, submits, presents, clean, failed, localVars >>

\* glfwGetFramebufferSize(...) in the loop body
RecreateLoopGetSize ==
    /\ pc = "rc_resize"
    /\ sizeZero' = winZero
    /\ pc' = "rc_events"
    /\ UNCHANGED << auxVars, currentFrame, framebufferResized, slotVars, gpuVars, winZero,
                    objVars, histVars, result, imageIndex, step, ret >>

\* glfwWaitEvents() returns, after the events (and their callbacks) were processed
RecreateWaitEvents ==
    /\ pc = "rc_events"
    /\ pc' = "rc_loop"
    /\ call' = [call EXCEPT !.waited = TRUE]
    /\ UNCHANGED << auxVars, currentFrame, framebufferResized, slotVars, gpuVars, winZero,
                    objVars, rcLog, draws, submits, presents, clean, failed, localVars >>

\* vkDeviceWaitIdle(logicalDevice)
RecreateWaitIdle ==
    /\ pc = "rc_idle"
    /\ DeviceIdle
    /\ rcLog' = Append(rcLog, << "wait", "idle" >>)
    /\ pc' = "rc_cleanup"
    /\ step' = 1
    /\ UNCHANGED << auxVars, currentFrame, framebufferResized, slotVars, gpuVars, winZero,
                    objVars, call, draws, submits, presents, clean, failed, result,
                    imageIndex, sizeZero, ret >>

\* One destroy call of cleanupSwapChain (the vectors keep their sizes).
CleanupSwapChainStep ==
    /\ pc = "rc_cleanup"
    /\ alive' = alive \ {cleanupSwapChainSteps[step]}
    /\ rcLog' = Append(rcLog, << "destroy", cleanupSwapChainSteps[step] >>)
    /\ IF step = Len(cleanupSwapChainSteps)
       THEN pc' = "rc_build" /\ step' = 1
       ELSE pc' = "rc_cleanup" /\ step' = step + 1
    /\ UNCHANGED << auxVars, currentFrame, framebufferResized, slotVars, gpuVars, winZero,
                    handles, swapChainImages, swapChainImageViews, swapChainFramebuffers,
                    call, draws, submits, presents, clean, failed, result, imageIndex,
                    sizeZero, ret >>

\* createSwapChain, createImageViews, createFramebuffers; then recreateSwapChain
\* returns into Draw.
RebuildStep ==
    /\ pc = "rc_build"
    /\ Create(RebuildSteps[step])
    /\ rcLog' = Append(rcLog, << "create", RebuildSteps[step] >>)
    /\ IF step = Len(RebuildSteps)
       THEN pc' = ret /\ step' = 1
       ELSE pc' = "rc_build" /\ step' = step + 1
    /\ UNCHANGED << auxVars, currentFrame, framebufferResized, slotVars, gpuVars, winZero,
                    call, draws, submits, presents, clean, failed, result, imageIndex,
                    sizeZero, ret >>

----------------------------------------------------------------------------
(* CleanUp *)

\* CleanUp: the destroy calls in program order, cleanupSwapChain's first.
CleanUpSteps ==
    cleanupSwapChainSteps \o
    << "drawBuffers", "descriptorPool", "graphicsPipeline", "syncObjects",
       "graphicsCommandPool", "renderPass", "logicalDevice", "debugMessenger",
       "surface", "instance" >>

\* The application calls CleanUp, between two Draw calls.
CleanUpBegin ==
    /\ pc = "idle"
    /\ pc' = "cu_idle"
    /\ UNCHANGED << auxVars, currentFrame, framebufferResized, slotVars, gpuVars, winZero,
                    objVars, histVars, localVars >>

\* vkDeviceWaitIdle(logicalDevice)
CleanUpWaitIdle ==
    /\ pc = "cu_idle"
    /\ DeviceIdle
    /\ pc' = "cu_destroy"
    /\ step' = 1
    /\ UNCHANGED << auxVars, currentFrame, framebufferResized, slotVars, gpuVars, winZero,
                    objVars, histVars, result, imageIndex, sizeZero, ret >>

\* What a destroy call of CleanUp releases: a pool takes the objects allocated
\* from it along, and the instance the physical device handle.
Freed(o) ==
    IF o = "descriptorPool" THEN {"descriptorPool", "descriptorSets"}
    ELSE IF o = "graphicsCommandPool" THEN {"graphicsCommandPool", "commandBuffers"}
    ELSE IF o = "instance" THEN {"instance", "physicalDevice"}
    ELSE {o}

\* One destroy call of CleanUp; after the last one CleanUp returns.
CleanUpStep ==
    /\ pc = "cu_destroy"
    /\ alive' = alive \ Freed(CleanUpSteps[step])
    /\ IF step = Len(CleanUpSteps)
       THEN pc' = "done" /\ step' = 1
       ELSE pc' = "cu_destroy" /\ step' = step + 1
    /\ UNCHANGED << auxVars, currentFrame, framebufferResized, slotVars, gpuVars, winZero,
                    handles, swapChainImages, swapChainImageViews, swapChainFramebuffers,
                    histVars, result, imageIndex, sizeZero, ret >>

----------------------------------------------------------------------------

Next ==
    \/ InitStep
    \/ DrawBegin
    \/ WaitForFences
    \/ AcquireNextImage
    \/ ResetFences
    \/ RecordCommandBuffer
    \/ UpdateUniformBuffer
    \/ QueueSubmit
    \/ QueuePresent
    \/ PresentCheck
    \/ AdvanceFrame
    \/ RecreateGetSize
    \/ RecreateLoopTest
    \/ RecreateLoopGetSize
    \/ RecreateWaitEvents
    \/ RecreateWaitIdle
    \/ CleanupSwapChainStep
    \/ RebuildStep
    \/ CleanUpBegin
    \/ CleanUpWaitIdle
    \/ CleanUpStep
    \/ ResizeFramebuffer
    \/ WindowSizeChange
    \/ \E s \in Slots : GPUComplete(s)
    \/ \E s \in Slots : PresentComplete(s)

Spec == Init /\ [][Next]_vars

----------------------------------------------------------------------------
(* Swapchain creation on its own: querySwapChainSupport, the three choose   *)
(* functions and createSwapChain, called again and again while the surface  *)
(* and the window change between the calls.                                 *)

\* (std::numeric_limits<uint32_t>::max)().  The model's uint32_t is 16 bits wide,
\* which keeps every value inside TLC's integers; no extent used below needs more.
UINT32_MAX == 65535

VK_FORMAT_B8G8R8A8_SRGB == "VK_FORMAT_B8G8R8A8_SRGB"
VK_FORMAT_B8G8R8A8_UNORM == "VK_FORMAT_B8G8R8A8_UNORM"
VK_COLOR_SPACE_SRGB_NONLINEAR_KHR == "VK_COLOR_SPACE_SRGB_NONLINEAR_KHR"
VK_COLOR_SPACE_DISPLAY_P3_NONLINEAR_EXT == "VK_COLOR_SPACE_DISPLAY_P3_NONLINEAR_EXT"
VK_PRESENT_MODE_IMMEDIATE_KHR == "VK_PRESENT_MODE_IMMEDIATE_KHR"
VK_PRESENT_MODE_MAILBOX_KHR == "VK_PRESENT_MODE_MAILBOX_KHR"
VK_PRESENT_MODE_FIFO_KHR == "VK_PRESENT_MODE_FIFO_KHR"

Extent(w, h) == [width |-> w, height |-> h]

\* currentExtent, minImageExtent and maxImageExtent the surface may report.
SurfaceExtents ==
    { [currentExtent |-> Extent(UINT32_MAX, UINT32_MAX),
       minImageExtent |-> Extent(1, 1), maxImageExtent |-> Extent(4096, 4096)],
      [currentExtent |-> Extent(UINT32_MAX, UINT32_MAX),
       minImageExtent |-> Extent(640, 480), maxImageExtent |-> Extent(1280, 720)],
      [currentExtent |-> Extent(800, 600),
       minImageExtent |-> Extent(1, 1), maxImageExtent |-> Extent(4096, 4096)] }

\* Surface format lists the surface may report (never empty on a suitable device).
SurfaceFormatLists ==
    { << [format |-> VK_FORMAT_B8G8R8A8_UNORM, colorSpace |-> VK_COLOR_SPACE_SRGB_NONLINEAR_KHR] >>,
      << [format |-> VK_FORMAT_B8G8R8A8_UNORM, colorSpace |-> VK_COLOR_SPACE_SRGB_NONLINEAR_KHR],
         [format |-> VK_FORMAT_B8G8R8A8_SRGB, colorSpace |-> VK_COLOR_SPACE_SRGB_NONLINEAR_KHR] >> }

\* Further format lists: the preferred format with another colour space
\* first, with and without the preferred pair behind it.
MoreSurfaceFormatLists ==
    { << [format |-> VK_FORMAT_B8G8R8A8_SRGB, colorSpace |-> VK_COLOR_SPACE_DISPLAY_P3_NONLINEAR_EXT],
         [format |-> VK_FORMAT_B8G8R8A8_UNORM, colorSpace |-> VK_COLOR_SPACE_SRGB_NONLINEAR_KHR],
         [format |-> VK_FORMAT_B8G8R8A8_SRGB, colorSpace |-> VK_COLOR_SPACE_SRGB_NONLINEAR_KHR],
         [format |-> VK_FORMAT_B8G8R8A8_SRGB, colorSpace |-> VK_COLOR_SPACE_SRGB_NONLINEAR_KHR] >>,
      << [format |-> VK_FORMAT_B8G8R8A8_SRGB, colorSpace |-> VK_COLOR_SPACE_DISPLAY_P3_NONLINEAR_EXT],
         [format |-> VK_FORMAT_B8G8R8A8_UNORM, colorSpace |-> VK_COLOR_SPACE_SRGB_NONLINEAR_KHR] >> }

\* Further surface capabilities (minImageCount, maxImageCount).
MoreSurfaceCaps == { [minImageCount |-> 2, maxImageCount |-> 2],
                     [minImageCount |-> 2, maxImageCount |-> 3],
                     [minImageCount |-> 3, maxImageCount |-> 8] }

\* Present mode lists the surface may report (FIFO is always supported).
PresentModeLists ==
    { << VK_PRESENT_MODE_FIFO_KHR >>,
      << VK_PRESENT_MODE_FIFO_KHR, VK_PRESENT_MODE_MAILBOX_KHR >>,
      << VK_PRESENT_MODE_IMMEDIATE_KHR, VK_PRESENT_MODE_MAILBOX_KHR, VK_PRESENT_MODE_FIFO_KHR >>,
      << VK_PRESENT_MODE_IMMEDIATE_KHR, VK_PRESENT_MODE_FIFO_KHR >> }

\* SwapChainSupportDetails
Details(c, e, f, m) ==
    [capabilities |-> [minImageCount |-> c.minImageCount,
                       maxImageCount |-> c.maxImageCount,
                       currentExtent |-> e.currentExtent,
                       minImageExtent |-> e.minImageExtent,
                       maxImageExtent |-> e.maxImageExtent],
     formats |-> f,
     presentModes |-> m]

\* What querySwapChainSupport may return: every combination of the first
\* capabilities, extents and format lists, and each of the further
\* capabilities, format lists and present mode lists on its own.
SupportDetails ==
    LET c0 == CHOOSE c \in SurfaceCaps : c.maxImageCount = 0
        e0 == CHOOSE e \in SurfaceExtents : e.currentExtent.width = 800
        f0 == CHOOSE f \in SurfaceFormatLists : Len(f) = 1
        m0 == << VK_PRESENT_MODE_FIFO_KHR >>
    IN  { Details(c, e, f, m0) : c \in SurfaceCaps, e \in SurfaceExtents, f \in SurfaceFormatLists }
          \cup { Details(c, e0, f0, m0) : c \in MoreSurfaceCaps }
          \cup { Details(c0, e0, f, m0) : f \in MoreSurfaceFormatLists }
          \cup { Details(c0, e0, f0, m) : m \in PresentModeLists }

\* Framebuffer sizes glfwGetFramebufferSize may report (ints, never negative).
FramebufferSizes == { Extent(0, 0), Extent(1920, 1080), Extent(5000, 3000) }

\* static_cast<uint32_t>(int)
ToUint32(i) == i % (UINT32_MAX + 1)

\* std::clamp(v, lo, hi)
clamp(v, lo, hi) == IF v < lo THEN lo ELSE IF hi < v THEN hi ELSE v

\* Mutant: the first reported format is taken.
chooseSwapSurfaceFormat_First(availableFormats) == availableFormats[1]

\* chooseSwapSurfaceFormat: the first B8G8R8A8_SRGB / SRGB_NONLINEAR entry, else entry 0.
chooseSwapSurfaceFormat(availableFormats) ==
    LET hits == { i \in 1 .. Len(availableFormats) :
                    /\ availableFormats[i].format = VK_FORMAT_B8G8R8A8_SRGB
                    /\ availableFormats[i].colorSpace = VK_COLOR_SPACE_SRGB_NONLINEAR_KHR }
    IN  IF hits # {}
        THEN availableFormats[CHOOSE i \in hits : \A j \in hits : i <= j]
        ELSE availableFormats[1]

\* Mutant: FIFO is taken whatever is available.
chooseSwapPresentMode_Fifo(availablePresentModes) == VK_PRESENT_MODE_FIFO_KHR

\* chooseSwapPresentMode: the MAILBOX entry if there is one, else FIFO.
chooseSwapPresentMode(availablePresentModes) ==
    IF \E i \in 1 .. Len(availablePresentModes) :
            availablePresentModes[i] = VK_PRESENT_MODE_MAILBOX_KHR
    THEN VK_PRESENT_MODE_MAILBOX_KHR
    ELSE VK_PRESENT_MODE_FIFO_KHR

\* Mutant: the framebuffer size is used as it is.
chooseSwapExtent_NoClamp(capabilities, size) ==
    IF capabilities.currentExtent.width # UINT32_MAX
    THEN capabilities.currentExtent
    ELSE Extent(ToUint32(size.width), ToUint32(size.height))

\* chooseSwapExtent; `size' is what its glfwGetFramebufferSize call reads.
chooseSwapExtent(capabilities, size) ==
    IF capabilities.currentExtent.width # UINT32_MAX
    THEN capabilities.currentExtent
    ELSE Extent(clamp(ToUint32(size.width), capabilities.minImageExtent.width,
                      capabilities.maxImageExtent.width),
                clamp(ToUint32(size.height), capabilities.minImageExtent.height,
                      capabilities.maxImageExtent.height))

\* Mutant: the image count is kept in a member and grows with every creation.
createSwapChain_Grow(old, support, size) ==
    [images |-> old.images + 1,
     imageFormat |-> chooseSwapSurfaceFormat(support.formats).format,
     imageColorSpace |-> chooseSwapSurfaceFormat(support.formats).colorSpace,
     presentMode |-> chooseSwapPresentMode(support.presentModes),
     extent |-> chooseSwapExtent(support.capabilities, size)]

\* createSwapChain: the chain made from the support details and the size read
\* during the call.  `old' is the chain in place before the call
\* (createInfo.oldSwapchain = VK_NULL_HANDLE: nothing of it is read).
createSwapChain(old, support, size) ==
    [images |-> SwapChainImageCount(support.capabilities),
     imageFormat |-> chooseSwapSurfaceFormat(support.formats).format,
     imageColorSpace |-> chooseSwapSurfaceFormat(support.formats).colorSpace,
     presentMode |-> chooseSwapPresentMode(support.presentModes),
     extent |-> chooseSwapExtent(support.capabilities, size)]

ChainFailed == [images |-> -1]
IsChain(c) == c.images > 0

\* The surface reports other capabilities or formats.
SurfaceChange ==
    /\ chain # ChainFailed
    /\ surfaceSupport' \in SupportDetails \ {surfaceSupport}
    /\ UNCHANGED << framebufferSize, chain, chainInputs, chainBefore, inputsBefore >>
    /\ UNCHANGED exceptSwap

\* The window's framebuffer gets another size.
FramebufferSizeChange ==
    /\ chain # ChainFailed
    /\ framebufferSize' \in FramebufferSizes \ {framebufferSize}
    /\ UNCHANGED << surfaceSupport, chain, chainInputs, chainBefore, inputsBefore >>
    /\ UNCHANGED exceptSwap

\* createSwapChain runs, at start-up or inside recreateSwapChain; a failing
\* vkCreateSwapchainKHR throws.
CreateSwapChainCall ==
    /\ chain # ChainFailed
    /\ chainBefore' = chain
    /\ inputsBefore' = chainInputs
    /\ chainInputs' = [support |-> surfaceSupport, size |-> framebufferSize]
    /\ \E ok \in BOOLEAN :
          chain' = IF ok THEN createSwapChain(chain, surfaceSupport, framebufferSize)
                   ELSE ChainFailed
    /\ UNCHANGED << surfaceSupport, framebufferSize >>
    /\ UNCHANGED exceptSwap

SwapInit ==
    /\ InitContext
    /\ surfaceSupport \in SupportDetails
    /\ framebufferSize \in FramebufferSizes
    /\ chain = NoChain
    /\ chainInputs = NoInputs
    /\ chainBefore = NoChain
    /\ inputsBefore = NoInputs
    /\ DeviceAtRest
    /\ ImageAtRest

SwapNext ==
    \/ SurfaceChange
    \/ FramebufferSizeChange
    \/ CreateSwapChainCall

SpecSwap == SwapInit /\ [][SwapNext]_vars

----------------------------------------------------------------------------
(* Physical device selection on its own: pickPhysicalDevice with            *)
(* isDeviceSuitable, findQueueFamilies and checkDeviceExtensionSupport, and *)
(* the createLogicalDevice call that follows it in Init.                    *)

\* Largest number of queue families of a device, and of devices enumerated.
MaxFamilies == 3
MaxDevices == 3

\* Mutant: sparse binding is not asked of the graphics family.
graphicsQueueflags_NoSparse == {"GRAPHICS", "TRANSFER"}

\* int graphicsQueueflags, transferQueueflags: the bits as a set.
graphicsQueueflags == {"GRAPHICS", "TRANSFER", "SPARSE_BINDING"}
transferQueueflags == {"TRANSFER", "SPARSE_BINDING"}

\* The device extensions the context requires (deviceExtensions, GraphicsContext.h).
deviceExtensions == {"VK_KHR_swapchain"}

\* Queue families a device may report: queueFlags, and whether the surface can
\* be presented to from the family.
QueueFlagSets == { {"GRAPHICS", "COMPUTE", "TRANSFER", "SPARSE_BINDING"},
                   {"TRANSFER", "SPARSE_BINDING"},
                   {"GRAPHICS", "COMPUTE", "TRANSFER"},
                   {"COMPUTE", "TRANSFER"} }
QueueFamilies == [queueFlags : QueueFlagSets, present : BOOLEAN]

\* Sequences over S of length lo .. hi.
SeqsOf(S, lo, hi) == UNION { [1 .. n -> S] : n \in lo .. hi }

\* Physical devices: every device reports at least one queue family.
PhysicalDevices ==
    [queueFamilies : SeqsOf(QueueFamilies, 1, MaxFamilies),
     extensions : { {}, {"VK_KHR_swapchain", "VK_KHR_maintenance1"} },
     formats : {0, 1},           \* number of surface formats
     presentModes : {0, 1}]      \* number of present modes

GraphicsFamily == [queueFlags |-> {"GRAPHICS", "COMPUTE", "TRANSFER", "SPARSE_BINDING"}, present |-> TRUE]
TransferFamily == [queueFlags |-> {"TRANSFER", "SPARSE_BINDING"}, present |-> FALSE]

\* The devices that enumerations of several devices are made of.
SomeDevices ==
    { [queueFamilies |-> << GraphicsFamily, TransferFamily >>,
       extensions |-> {"VK_KHR_swapchain", "VK_KHR_maintenance1"}, formats |-> 1, presentModes |-> 1],
      [queueFamilies |-> << TransferFamily, GraphicsFamily, GraphicsFamily >>,
       extensions |-> {"VK_KHR_swapchain", "VK_KHR_maintenance1"}, formats |-> 1, presentModes |-> 1],
      [queueFamilies |-> << GraphicsFamily, TransferFamily >>,
       extensions |-> {}, formats |-> 1, presentModes |-> 1],
      [queueFamilies |-> << GraphicsFamily >>,
       extensions |-> {"VK_KHR_swapchain", "VK_KHR_maintenance1"}, formats |-> 1, presentModes |-> 1] }

\* What vkEnumeratePhysicalDevices may return.
DeviceLists ==
    { << d >> : d \in PhysicalDevices } \cup SeqsOf(SomeDevices, 0, MaxDevices)

\* QueueFamilyIndices::isComplete
isComplete(indices) ==
    /\ indices.graphicsFamily # NoIndex
    /\ indices.transferFamily # NoIndex
    /\ indices.presentFamily # NoIndex

\* Mutant: an index that has a value keeps it.
Assign_KeepFirst(old, i) == IF old = NoIndex THEN i ELSE old

\* indices.<slot> = i
Assign(old, i) == i

\* The loop of findQueueFamilies from family i on (i counts from 0, as in the code).
RECURSIVE ScanFamilies(_, _, _)
ScanFamilies(queueFamilies, i, indices) ==
    IF i >= Len(queueFamilies)
    THEN [indices |-> indices, examined |-> i, thrown |-> FALSE]
    ELSE LET queueFamily == queueFamilies[i + 1]
             p == IF queueFamily.present
                  THEN [indices EXCEPT !.presentFamily = Assign(@, i)]
                  ELSE indices
             g == IF queueFamily.queueFlags \cap graphicsQueueflags = graphicsQueueflags
                  THEN [p EXCEPT !.graphicsFamily = Assign(@, i)]
                  ELSE p
             t == IF /\ queueFamily.queueFlags \cap transferQueueflags = transferQueueflags
                     /\ queueFamily.queueFlags \cap {"GRAPHICS"} = {}
                  THEN [g EXCEPT !.transferFamily = Assign(@, i)]
                  ELSE g
         IN  IF isComplete(t)
             THEN [indices |-> t, examined |-> i + 1, thrown |-> FALSE]
             ELSE ScanFamilies(queueFamilies, i + 1, t)

\* findQueueFamilies: the indices, the number of families examined, and whether it threw.
findQueueFamilies(device) ==
    IF Len(device.queueFamilies) = 0
    THEN [indices |-> NoIndices, examined |-> 0, thrown |-> TRUE]
    ELSE ScanFamilies(device.queueFamilies, 0, NoIndices)

\* Mutant: the extensions are not checked.
checkDeviceExtensionSupport_Any(device) == TRUE

\* checkDeviceExtensionSupport: every available extension is erased from the
\* required set, which must end up empty.
checkDeviceExtensionSupport(device) == (deviceExtensions \ device.extensions) = {}

\* isDeviceSuitable, given the indices findQueueFamilies returned.
isDeviceSuitable(device, indices) ==
    LET extensionsSupported == checkDeviceExtensionSupport(device)
        swapChainAdequate == IF extensionsSupported
                             THEN device.formats # 0 /\ device.presentModes # 0
                             ELSE FALSE
    IN  isComplete(indices) /\ extensionsSupported /\ swapChainAdequate

\* Mutant: the loop goes on after a suitable device.
LoopBreaks_Never(suitable) == FALSE

\* if (isDeviceSuitable(device)) { physicalDevice = device; break; }
LoopBreaks(suitable) == suitable

\* pickPhysicalDevice up to the loop: zero devices throw.
PickBegin ==
    /\ pickPc = "start"
    /\ physicalDevice' = VK_NULL_HANDLE
    /\ pickPc' = IF Len(devices) = 0 THEN "throw" ELSE "loop"
    /\ UNCHANGED << devices, deviceIndex, queueFamilyIndices, lastScan, logicalDevice >>
    /\ UNCHANGED exceptDevice

\* One iteration of the loop over the devices: isDeviceSuitable(device), which
\* stores the indices it found in the member queueFamilyIndices.
PickExamine ==
    /\ pickPc = "loop"
    /\ LET device == devices[deviceIndex]
           found == findQueueFamilies(device)
           suitable == isDeviceSuitable(device, found.indices)
       IN  IF found.thrown
           THEN /\ pickPc' = "throw"
                /\ UNCHANGED << deviceIndex, physicalDevice, queueFamilyIndices, lastScan >>
           ELSE /\ queueFamilyIndices' = found.indices
                /\ lastScan' = [device |-> deviceIndex, examined |-> found.examined,
                                suitable |-> suitable]
                /\ physicalDevice' = IF suitable THEN deviceIndex ELSE physicalDevice
                /\ IF LoopBreaks(suitable) \/ deviceIndex = Len(devices)
                   THEN pickPc' = "check" /\ deviceIndex' = deviceIndex
                   ELSE pickPc' = "loop" /\ deviceIndex' = deviceIndex + 1
    /\ UNCHANGED << devices, logicalDevice >>
    /\ UNCHANGED exceptDevice

\* if (physicalDevice == VK_NULL_HANDLE) throw
PickCheck ==
    /\ pickPc = "check"
    /\ pickPc' = IF physicalDevice = VK_NULL_HANDLE THEN "throw" ELSE "picked"
    /\ UNCHANGED << devices, deviceIndex, physicalDevice, queueFamilyIndices, lastScan,
                    logicalDevice >>
    /\ UNCHANGED exceptDevice

\* Init goes on with createLogicalDevice once pickPhysicalDevice has returned;
\* an exception thrown by pickPhysicalDevice leaves Init.
CreateLogicalDeviceCall ==
    /\ pickPc = "picked"
    /\ logicalDevice' = (physicalDevice # VK_NULL_HANDLE)
    /\ pickPc' = "device"
    /\ UNCHANGED << devices, deviceIndex, physicalDevice, queueFamilyIndices, lastScan >>
    /\ UNCHANGED exceptDevice

DeviceInit ==
    /\ InitContext
    /\ SwapAtRest
    /\ devices \in DeviceLists
    /\ pickPc = "start"
    /\ deviceIndex = 1
    /\ physicalDevice = VK_NULL_HANDLE
    /\ queueFamilyIndices = NoIndices
    /\ lastScan = NoScan
    /\ logicalDevice = FALSE
    /\ ImageAtRest

DeviceNext ==
    \/ PickBegin
    \/ PickExamine
    \/ PickCheck
    \/ CreateLogicalDeviceCall

SpecDevice == DeviceInit /\ [][DeviceNext]_vars

----------------------------------------------------------------------------
(* ImageBuffer on its own: the initialisers of a texture, a depth image and *)
(* a plain image, then transitionImageLayout calls with any new layout.     *)

\* Number of transitionImageLayout calls explored.
MaxTransitions == 3

VK_IMAGE_LAYOUT_TRANSFER_DST_OPTIMAL == "VK_IMAGE_LAYOUT_TRANSFER_DST_OPTIMAL"
VK_IMAGE_LAYOUT_SHADER_READ_ONLY_OPTIMAL == "VK_IMAGE_LAYOUT_SHADER_READ_ONLY_OPTIMAL"
VK_IMAGE_LAYOUT_DEPTH_STENCIL_ATTACHMENT_OPTIMAL == "VK_IMAGE_LAYOUT_DEPTH_STENCIL_ATTACHMENT_OPTIMAL"
VK_IMAGE_LAYOUT_GENERAL == "VK_IMAGE_LAYOUT_GENERAL"

\* Values of VkImageLayout a caller may pass.
ImageLayouts == { VK_IMAGE_LAYOUT_UNDEFINED, VK_IMAGE_LAYOUT_TRANSFER_DST_OPTIMAL,
                  VK_IMAGE_LAYOUT_SHADER_READ_ONLY_OPTIMAL,
                  VK_IMAGE_LAYOUT_DEPTH_STENCIL_ATTACHMENT_OPTIMAL, VK_IMAGE_LAYOUT_GENERAL }

NoCommand == [throws |-> TRUE, queueOperation |-> "none",
              srcQueueFamilyIndex |-> "none", dstQueueFamilyIndex |-> "none"]

\* Mutant: any image may be moved to the shader-read-only layout.
TransitionBranch_AnyToShaderRead(oldLayout, newLayout) ==
    IF newLayout = VK_IMAGE_LAYOUT_SHADER_READ_ONLY_OPTIMAL
    THEN [throws |-> FALSE, queueOperation |-> "MEM_GraphicsCommand",
          srcQueueFamilyIndex |-> "transferQueueFamily",
          dstQueueFamilyIndex |-> "graphicsQueueFamily"]
    ELSE NoCommand

\* Mutant: the final else records a graphics command instead of throwing.
TransitionBranch_NoThrow(oldLayout, newLayout) ==
    [throws |-> FALSE, queueOperation |-> "MEM_GraphicsCommand",
     srcQueueFamilyIndex |-> "transferQueueFamily", dstQueueFamilyIndex |-> "graphicsQueueFamily"]

\* The if / else-if chain of transitionImageLayout: the command kind and the
\* barrier's queue families, or the throw of the final else.
TransitionBranch(oldLayout, newLayout) ==
    IF oldLayout = VK_IMAGE_LAYOUT_UNDEFINED /\ newLayout = VK_IMAGE_LAYOUT_TRANSFER_DST_OPTIMAL
    THEN [throws |-> FALSE, queueOperation |-> "MEM_TransferCommand",
          srcQueueFamilyIndex |-> "transferQueueFamily",
          dstQueueFamilyIndex |-> "transferQueueFamily"]
    ELSE IF /\ oldLayout = VK_IMAGE_LAYOUT_TRANSFER_DST_OPTIMAL
            /\ newLayout = VK_IMAGE_LAYOUT_SHADER_READ_ONLY_OPTIMAL
    THEN [throws |-> FALSE, queueOperation |-> "MEM_GraphicsCommand",
          srcQueueFamilyIndex |-> "transferQueueFamily",
          dstQueueFamilyIndex |-> "graphicsQueueFamily"]
    ELSE IF /\ oldLayout = VK_IMAGE_LAYOUT_UNDEFINED
            /\ newLayout = VK_IMAGE_LAYOUT_DEPTH_STENCIL_ATTACHMENT_OPTIMAL
    THEN [throws |-> FALSE, queueOperation |-> "MEM_GraphicsCommand",
          srcQueueFamilyIndex |-> "transferQueueFamily",
          dstQueueFamilyIndex |-> "graphicsQueueFamily"]
    ELSE NoCommand

\* beginCommandBuffer / endCommandBuffer: the queue the short-lived command
\* buffer of a command kind is submitted to.
CommandQueue(queueOperation) ==
    IF queueOperation = "MEM_TransferCommand" THEN "transferQueue"
    ELSE IF queueOperation = "MEM_GraphicsCommand" THEN "graphicsQueue"
    ELSE "none"

\* One call made for the image while its recorded layout is `layout'.
Op(name, queueOperation, layout) ==
    [op |-> name, queueOperation |-> queueOperation, queue |-> CommandQueue(queueOperation),
     layout |-> layout, ok |-> TRUE]

\* transitionImageLayout(newLayout) on an image whose recorded layout is
\* oldLayout: unless the chain throws, a command buffer is begun, the barrier
\* recorded, the buffer ended and submitted, and the recorded layout updated.
transitionImageLayout(oldLayout, newLayout) ==
    LET branch == TransitionBranch(oldLayout, newLayout)
        done == IF branch.throws THEN 0 ELSE 1
        after == IF branch.throws THEN oldLayout ELSE newLayout
    IN  [threw |-> branch.throws,
         layout |-> after,
         log |-> << [oldLayout |-> oldLayout, newLayout |-> newLayout,
                     threw |-> branch.throws,
                     queueOperation |-> branch.queueOperation,
                     queue |-> CommandQueue(branch.queueOperation),
                     begun |-> done, barriers |-> done, ended |-> done,
                     srcQueueFamilyIndex |-> branch.srcQueueFamilyIndex,
                     dstQueueFamilyIndex |-> branch.dstQueueFamilyIndex,
                     layoutAfter |-> after] >>,
         ops |-> IF branch.throws THEN << >>
                 ELSE << Op("beginCommandBuffer", branch.queueOperation, oldLayout),
                         Op("vkCmdPipelineBarrier", branch.queueOperation, oldLayout),
                         Op("endCommandBuffer", branch.queueOperation, oldLayout) >>]

\* Mutant: the buffer-to-image copy is recorded as a graphics command.
CopyCommand_Graphics == "MEM_GraphicsCommand"

\* copyBufferToImgBuffer: the command kind of the copy.
CopyCommand == "MEM_TransferCommand"

\* copyBufferToImgBuffer: a command buffer is begun, the copy recorded (with
\* VK_IMAGE_LAYOUT_TRANSFER_DST_OPTIMAL named as the image's layout), the buffer ended.
copyBufferToImgBuffer(layout) ==
    << Op("beginCommandBuffer", CopyCommand, layout),
       Op("vkCmdCopyBufferToImage", CopyCommand, layout),
       Op("endCommandBuffer", CopyCommand, layout) >>

\* initImageBuffer: the layout is set to undefined, the image created, its
\* memory allocated and bound (the creation calls succeed).
initImageBuffer ==
    << Op("vkCreateImage", "none", VK_IMAGE_LAYOUT_UNDEFINED),
       Op("vkAllocateMemory", "none", VK_IMAGE_LAYOUT_UNDEFINED),
       Op("vkBindImageMemory", "none", VK_IMAGE_LAYOUT_UNDEFINED) >>

\* Mutant: the copy is issued before the transition to the transfer layout.
initTextureImageBufferSteps_CopyFirst ==
    << << "MemBuffer", "none" >>, << "vkMapMemory", "none" >>, << "memcpy", "none" >>,
       << "vkUnmapMemory", "none" >>, << "stbi_image_free", "none" >>,
       << "initImageBuffer", "none" >>,
       << "copyBufferToImgBuffer", "none" >>,
       << "transitionImageLayout", VK_IMAGE_LAYOUT_TRANSFER_DST_OPTIMAL >>,
       << "transitionImageLayout", VK_IMAGE_LAYOUT_SHADER_READ_ONLY_OPTIMAL >>,
       << "vkDestroyBuffer", "none" >>, << "vkFreeMemory", "none" >> >>

\* initTextureImageBuffer: the statements after the null check, in program order.
initTextureImageBufferSteps ==
    << << "MemBuffer", "none" >>, << "vkMapMemory", "none" >>, << "memcpy", "none" >>,
       << "vkUnmapMemory", "none" >>, << "stbi_image_free", "none" >>,
       << "initImageBuffer", "none" >>,
       << "transitionImageLayout", VK_IMAGE_LAYOUT_TRANSFER_DST_OPTIMAL >>,
       << "copyBufferToImgBuffer", "none" >>,
       << "transitionImageLayout", VK_IMAGE_LAYOUT_SHADER_READ_ONLY_OPTIMAL >>,
       << "vkDestroyBuffer", "none" >>, << "vkFreeMemory", "none" >> >>

\* initDepthImageBuffer: the statements in program order.
initDepthImageBufferSteps ==
    << << "initImageBuffer", "none" >>,
       << "transitionImageLayout", VK_IMAGE_LAYOUT_DEPTH_STENCIL_ATTACHMENT_OPTIMAL >> >>

\* The effect of one statement of an initialiser on an image whose recorded
\* layout is `layout'.
Statement(st, layout) ==
    IF st[1] = "transitionImageLayout" THEN transitionImageLayout(layout, st[2])
    ELSE IF st[1] = "initImageBuffer"
    THEN [threw |-> FALSE, layout |-> VK_IMAGE_LAYOUT_UNDEFINED, log |-> << >>,
          ops |-> initImageBuffer]
    ELSE IF st[1] = "copyBufferToImgBuffer"
    THEN [threw |-> FALSE, layout |-> layout, log |-> << >>,
          ops |-> copyBufferToImgBuffer(layout)]
    ELSE [threw |-> FALSE, layout |-> layout, log |-> << >>,
          ops |-> << Op(st[1], "none", layout) >>]

\* Mutant: a null result of stbi_load is not checked.
LoadThrows_Never(pixels) == FALSE

\* initTextureImageBuffer: if (!pixels) throw
LoadThrows(pixels) == ~pixels

\* ImageBuffer(filepath, ...): initTextureImageBuffer calls stbi_load, which
\* returns the pixels or null, and throws on null.
ImageBufferTexture ==
    /\ imagePc = "new"
    /\ \E pixels \in BOOLEAN :
          /\ imageOps' = << [Op("stbi_load", "none", imageLayout) EXCEPT !.ok = pixels] >>
          /\ imagePc' = IF LoadThrows(pixels) THEN "load_failed" ELSE "running"
    /\ imageKind' = "texture"
    /\ imageStep' = 1
    /\ UNCHANGED << imageLayout, imageLog >>
    /\ UNCHANGED exceptImage

\* initDepthImageBuffer is entered.
ImageBufferDepth ==
    /\ imagePc = "new"
    /\ imageKind' = "depth"
    /\ imagePc' = "running"
    /\ imageStep' = 1
    /\ UNCHANGED << imageLayout, imageLog, imageOps >>
    /\ UNCHANGED exceptImage

\* initImageBuffer is called on its own: a freshly initialised image.
ImageBufferPlain ==
    /\ imagePc = "new"
    /\ imageKind' = "plain"
    /\ imagePc' = "ready"
    /\ imageLayout' = VK_IMAGE_LAYOUT_UNDEFINED
    /\ imageOps' = initImageBuffer
    /\ UNCHANGED << imageLog, imageStep >>
    /\ UNCHANGED exceptImage

\* The next statement of initTextureImageBuffer or initDepthImageBuffer.
ConstructStep ==
    /\ imagePc = "running"
    /\ LET steps == IF imageKind = "texture" THEN initTextureImageBufferSteps
                    ELSE initDepthImageBufferSteps
           e == Statement(steps[imageStep], imageLayout)
       IN  /\ imageLayout' = e.layout
           /\ imageLog' = imageLog \o e.log
           /\ imageOps' = imageOps \o e.ops
           /\ imagePc' = IF e.threw THEN "threw"
                         ELSE IF imageStep = Len(steps) THEN "ready"
                         ELSE "running"
           /\ imageStep' = IF e.threw \/ imageStep = Len(steps) THEN imageStep
                           ELSE imageStep + 1
    /\ UNCHANGED imageKind
    /\ UNCHANGED exceptImage

\* One call of transitionImageLayout(newLayout) by a user of an initialised
\* image, with any new layout.
TransitionImageLayoutCall ==
    /\ imagePc = "ready"
    /\ Len(imageLog) < MaxTransitions
    /\ \E newLayout \in ImageLayouts :
          LET e == transitionImageLayout(imageLayout, newLayout)
          IN  /\ imageLayout' = e.layout
              /\ imageLog' = imageLog \o e.log
              /\ imageOps' = imageOps \o e.ops
    /\ UNCHANGED << imageKind, imagePc, imageStep >>
    /\ UNCHANGED exceptImage

ImageInit ==
    /\ InitContext
    /\ SwapAtRest
    /\ DeviceAtRest
    /\ ImageAtRest

ImageNext ==
    \/ ImageBufferTexture
    \/ ImageBufferDepth
    \/ ImageBufferPlain
    \/ ConstructStep
    \/ TransitionImageLayoutCall

SpecImage == ImageInit /\ [][ImageNext]_vars

----------------------------------------------------------------------------
(* Properties *)

RECURSIVE SumInFlight(_)
SumInFlight(S) ==
    IF S = {} THEN 0
    ELSE LET s == CHOOSE x \in S : TRUE IN inFlight[s] + SumInFlight(S \ {s})

\* Submissions whose in-flight fence has not signaled yet.
TotalInFlight == SumInFlight(Slots)

InDraw == pc \notin {"init", "idle", "cu_idle", "cu_destroy", "done"}
RecreatePcs == {"rc_size", "rc_loop", "rc_resize", "rc_events", "rc_idle", "rc_cleanup", "rc_build"}
InRecreate == pc \in RecreatePcs

\* C1: whenever the CPU is about to reset the slot's fence, re-record the
\* slot's command buffer or write the slot's uniform buffer (and until it has
\* submitted), no submission made earlier on that slot is still executing.
C1_NoWriteWhileInFlight ==
    pc \in {"reset", "record", "update", "submit"} =>
        /\ call.slot = currentFrame
        /\ inFlight[currentFrame] = 0

\* A slot is reused after an earlier submission on it: the uniform buffer of
\* the slot has just been rewritten.
C1_Witness ==
    /\ pc = "submit"
    /\ call.fenceReset /\ call.recorded /\ call.uboWritten
    /\ draws > MAX_FRAMES_IN_FLIGHT
    /\ submits = draws - 1

\* C2: at most F submissions have an unsignaled fence, and when the CPU is
\* about to submit, fewer than F have (the slot's own earlier one has signaled).
C2_AtMostFInFlight ==
    /\ TotalInFlight <= MAX_FRAMES_IN_FLIGHT
    /\ \A s \in Slots : inFlight[s] <= 1
    /\ pc = "submit" => TotalInFlight < MAX_FRAMES_IN_FLIGHT

\* All F slots are in flight and the next Draw call is blocked on its fence.
C2_Witness ==
    /\ TotalInFlight = MAX_FRAMES_IN_FLIGHT
    /\ pc = "wait"
    /\ ~FenceWaitReturns(currentFrame)

\* C3 (as claimed): in a Draw call whose acquire reported out-of-date, the
\* swapchain recreation is triggered and the fence is not reset, nothing is
\* recorded, submitted or presented.
C3_OutOfDateAcquireAborts ==
    (InDraw /\ call.acquire = VK_ERROR_OUT_OF_DATE_KHR) =>
        /\ call.recreated
        /\ ~call.fenceReset /\ ~call.recorded /\ ~call.submitted /\ ~call.presented

\* C4 (as claimed, in the form a finite run refutes): after an acquire or a
\* present reported a recoverable code, the fence wait of a later Draw call is
\* never in a state it cannot leave: either the fence is signaled, or a
\* submission that signals it is queued with its wait semaphore signaled.
C4_FenceWaitCanReturn ==
    (failed /\ pc = "wait" /\ ~inFlightFences[currentFrame]) =>
        (inFlight[currentFrame] > 0 /\ imageAvailableSemaphores[currentFrame])

\* C5: the branch after the present starts the recreation iff the result is
\* out-of-date or suboptimal or the resize flag is set; and whenever a
\* recreation starts the flag is false.
C5_RecreateAfterPresent ==
    [][ /\ (pc = "present_check" /\ pc' # pc) =>
            ((pc' = "rc_size") <=>
                (result \in {VK_ERROR_OUT_OF_DATE_KHR, VK_SUBOPTIMAL_KHR} \/ framebufferResized))
        /\ (pc # "rc_size" /\ pc' = "rc_size") => ~framebufferResized'
      ]_vars

\* A recreation started only because the resize flag was set; the flag is cleared.
C5_Witness ==
    /\ pc = "rc_size"
    /\ call.present = VK_SUCCESS
    /\ call.resizedAtPresent
    /\ ~framebufferResized

\* C6: a present result other than success, out-of-date, suboptimal with the
\* flag unset ends Draw with a fatal error; so does a failed submission, which
\* is followed by no present.  After the fatal error nothing is recreated and
\* the slot index keeps its value.
C6_HardFailuresAreFatal ==
    [][ /\ (pc = "present_check" /\ pc' # pc /\ ~framebufferResized
              /\ result \notin {VK_SUCCESS, VK_ERROR_OUT_OF_DATE_KHR, VK_SUBOPTIMAL_KHR})
            => (pc' = "fatal" /\ currentFrame' = currentFrame)
        /\ (pc = "submit" /\ pc' # pc /\ ~call'.submitted) => (pc' = "fatal" /\ presents' = presents)
        /\ pc = "fatal" =>
              /\ pc' = "fatal"
              /\ UNCHANGED << currentFrame, presents, submits, handles, alive >>
              /\ currentFrame = call.slot
              /\ ~call.recreated
              /\ (call.fatal = "submit" => ~call.presented)
      ]_vars

\* Draw ended with a fatal error because the present reported a lost device.
C6_Witness ==
    /\ pc = "fatal"
    /\ call.fatal = "present"
    /\ call.present = VK_ERROR_DEVICE_LOST
    /\ call.submitted

\* C7 (as claimed): with a suboptimal acquire the frame is skipped (nothing
\* recorded, submitted or presented, no fatal error), and with a hard acquire
\* error Draw ends with a fatal error.
C7_AcquireFailureSkipsFrame ==
    /\ (InDraw /\ call.acquire = VK_SUBOPTIMAL_KHR) =>
          (~call.recorded /\ ~call.submitted /\ ~call.presented /\ call.fatal = "none")
    /\ (InDraw /\ call.acquire = VK_ERROR_DEVICE_LOST) =>
          (pc = "fatal" /\ call.fatal = "acquire")

\* C8: the slot index is always in 0..F-1; while every acquire, submit and
\* present has succeeded and no resize was notified, n completed Draw calls
\* made n submissions and n presentations and leave the slot index at n mod F,
\* and the k-th call runs on slot k mod F.  Every submission is either still
\* in flight or has signaled its fence.
C8_SlotRotation ==
    /\ currentFrame \in Slots
    /\ signals + TotalInFlight = submits
    /\ (clean /\ pc = "idle") =>
          /\ submits = draws
          /\ presents = draws
          /\ currentFrame = draws % MAX_FRAMES_IN_FLIGHT
    /\ (clean /\ InDraw) =>
          /\ call.slot = (draws - 1) % MAX_FRAMES_IN_FLIGHT
          /\ currentFrame = call.slot

\* MaxDraws successful Draw calls have returned and every fence has signaled.
C8_Witness ==
    /\ clean
    /\ pc = "idle"
    /\ draws = MaxDraws
    /\ draws > MAX_FRAMES_IN_FLIGHT
    /\ signals = draws
    /\ presents = draws

\* The order of the steps of recreateSwapChain.
RecreateOrder ==
    << << "size", "nonzero" >>, << "wait", "idle" >>,
       << "destroy", "framebuffers" >>, << "destroy", "imageViews" >>,
       << "destroy", "swapChain" >>,
       << "create", "swapChain" >>, << "create", "imageViews" >>,
       << "create", "framebuffers" >> >>

IsPrefix(a, b) == Len(a) <= Len(b) /\ SubSeq(b, 1, Len(a)) = a

\* C9: the steps recreateSwapChain has performed are always an initial part of
\* the order size-wait, idle-wait, destroy framebuffers, image views,
\* swapchain, create swapchain, image views, framebuffers; the size it read is
\* non-zero from the idle-wait on; and it returns with all of them done.
C9_RecreateOrder ==
    /\ IsPrefix(rcLog, RecreateOrder)
    /\ pc \in {"rc_idle", "rc_cleanup", "rc_build"} => (~sizeZero /\ Len(rcLog) >= 1)
    /\ pc \in {"rc_cleanup", "rc_build"} => Len(rcLog) >= 2
    /\ (pc = "advance" /\ call.recreated) => rcLog = RecreateOrder

\* A recreation has run to its end.
C9_Witness ==
    /\ pc = "advance"
    /\ call.recreated
    /\ rcLog = RecreateOrder

\* C10: no step taken while recreateSwapChain runs creates or destroys an
\* object other than the swapchain, its image views and its framebuffers, nor
\* changes the slot index, the command buffers or the uniform buffers; and
\* when it returns these three objects are alive and newly created.
C10_RecreateFrame ==
    [][ InRecreate =>
          /\ \A o \in Objects \ SwapChainObjects :
                handles'[o] = handles[o] /\ (o \in alive' <=> o \in alive)
          /\ UNCHANGED << currentFrame, commandBuffers, uniformBuffers >>
          /\ \A o \in SwapChainObjects : handles'[o] >= handles[o]
          /\ (pc = "rc_build" /\ pc' # "rc_build") =>
                \A o \in SwapChainObjects :
                    o \in alive' /\ handles'[o] = handles'["swapChain"] /\ handles'[o] > 1
      ]_vars

\* A recreation has replaced the swapchain and kept the render pass.
C10_Witness ==
    /\ pc = "advance"
    /\ call.recreated
    /\ handles["swapChain"] = 2
    /\ handles["framebuffers"] = 2
    /\ handles["renderPass"] = 1
    /\ Objects \subseteq alive

----------------------------------------------------------------------------
(* Properties of swapchain creation (SpecSwap) *)

InRange(v, lo, hi) == IF v < lo THEN lo ELSE IF v > hi THEN hi ELSE v

\* C14: the extent of a created chain is the surface's current extent when
\* that extent's width is not the maximum uint32_t value; otherwise it is the
\* framebuffer size with the width brought into [min width, max width] and the
\* height into [min height, max height].
C14_ChooseSwapExtent ==
    IsChain(chain) =>
        LET c == chainInputs.support.capabilities
            fb == chainInputs.size
        IN  IF c.currentExtent.width # UINT32_MAX
            THEN chain.extent = c.currentExtent
            ELSE /\ chain.extent.width =
                       InRange(fb.width, c.minImageExtent.width, c.maxImageExtent.width)
                 /\ chain.extent.height =
                       InRange(fb.height, c.minImageExtent.height, c.maxImageExtent.height)

\* Limits (1,1) to (4096,4096) and a 1920 x 1080 framebuffer give 1920 x 1080.
C14_Witness ==
    /\ IsChain(chain)
    /\ chainInputs.support.capabilities.currentExtent.width = UINT32_MAX
    /\ chainInputs.support.capabilities.minImageExtent = Extent(1, 1)
    /\ chainInputs.support.capabilities.maxImageExtent = Extent(4096, 4096)
    /\ chainInputs.size = Extent(1920, 1080)
    /\ chain.extent = Extent(1920, 1080)

----------------------------------------------------------------------------
(* Properties of the resize handling (Spec) *)

\* C12: recreateSwapChain is at its idle-wait, its destruction or its rebuild
\* only while the framebuffer size it last read has a non-zero width and a
\* non-zero height.
C12_NoRecreateAtZeroSize ==
    pc \in {"rc_idle", "rc_cleanup", "rc_build"} => ~sizeZero

\* recreateSwapChain has waited in its loop for a minimized window and destroys now.
C12_Witness ==
    /\ pc = "rc_cleanup"
    /\ call.waited
    /\ ~sizeZero

\* C13: the resize flag is cleared only by the present step of Draw, which
\* then starts a recreation; a Draw call that finds the flag set at its
\* present step has run exactly one recreation when it returns; and the flag
\* is set when Draw returns only if ResizeFramebuffer ran during that recreation.
C13_ResizeFlagConsulted ==
    [][ /\ (framebufferResized /\ ~framebufferResized') =>
              (pc = "present_check" /\ pc' = "rc_size")
        /\ (pc = "present_check" /\ pc' # pc /\ framebufferResized) => pc' = "rc_size"
        /\ (pc = "advance" /\ pc' = "idle") =>
              /\ call.resizedAtPresent => call.recreations = 1
              /\ framebufferResized => call.notified
        /\ call'.recreations <= 1
      ]_vars

\* A Draw call that found the flag set returns after one recreation, the flag cleared.
C13_Witness ==
    /\ pc = "advance"
    /\ call.resizedAtPresent
    /\ call.present = VK_SUCCESS
    /\ call.recreations = 1
    /\ ~framebufferResized

\* C20: while CleanUp or recreateSwapChain destroys objects no submitted frame
\* is still executing, and as long as a submitted frame may be executing every
\* object of the context is alive.
C20_IdleBeforeDestroy ==
    /\ pc \in {"rc_cleanup", "cu_destroy"} => TotalInFlight = 0
    /\ TotalInFlight > 0 => Objects \subseteq alive

\* CleanUp destroys the objects of a context that has submitted frames.
C20_Witness ==
    /\ pc = "cu_destroy"
    /\ step > 1
    /\ submits >= 2
    /\ signals >= 2

----------------------------------------------------------------------------
(* Properties of physical device selection (SpecDevice) *)

GraphicsCapable(q) == {"GRAPHICS", "TRANSFER", "SPARSE_BINDING"} \subseteq q.queueFlags
TransferOnly(q) == {"TRANSFER", "SPARSE_BINDING"} \subseteq q.queueFlags /\ "GRAPHICS" \notin q.queueFlags
PresentCapable(q) == q.present

\* The indices (from 0) of the first k families that are graphics-capable,
\* transfer-only, present-capable.
GraphicsMatches(fams, k) == { i \in 0 .. (k - 1) : GraphicsCapable(fams[i + 1]) }
TransferMatches(fams, k) == { i \in 0 .. (k - 1) : TransferOnly(fams[i + 1]) }
PresentMatches(fams, k) == { i \in 0 .. (k - 1) : PresentCapable(fams[i + 1]) }

FirstOf(S) == IF S = {} THEN NoIndex ELSE CHOOSE i \in S : \A j \in S : i <= j
LastOf(S) == IF S = {} THEN NoIndex ELSE CHOOSE i \in S : \A j \in S : i >= j

\* Every slot has a match among the first k families.
AllFilled(fams, k) ==
    GraphicsMatches(fams, k) # {} /\ TransferMatches(fams, k) # {} /\ PresentMatches(fams, k) # {}

\* The number of families examined when scanning stops as soon as every slot is filled.
StopsAt(fams) ==
    IF \E k \in 1 .. Len(fams) : AllFilled(fams, k)
    THEN CHOOSE k \in 1 .. Len(fams) :
            AllFilled(fams, k) /\ \A j \in 1 .. (k - 1) : ~AllFilled(fams, j)
    ELSE Len(fams)

\* The queue families of the device isDeviceSuitable looked at last.
ScannedFamilies == devices[lastScan.device].queueFamilies

\* C15, as claimed: each index is that of the first family satisfying the
\* slot's predicate, and no family after the one that filled the last slot
\* is examined.
C15_FirstFamilyWins ==
    lastScan.device # 0 =>
        /\ queueFamilyIndices.graphicsFamily = FirstOf(GraphicsMatches(ScannedFamilies, Len(ScannedFamilies)))
        /\ queueFamilyIndices.transferFamily = FirstOf(TransferMatches(ScannedFamilies, Len(ScannedFamilies)))
        /\ queueFamilyIndices.presentFamily = FirstOf(PresentMatches(ScannedFamilies, Len(ScannedFamilies)))
        /\ lastScan.examined = StopsAt(ScannedFamilies)

\* C15, amended: each index is that of the last family satisfying the slot's
\* predicate among the families examined, and no family after the one that
\* filled the last slot is examined.
C15_LastExaminedFamilyWins ==
    lastScan.device # 0 =>
        /\ queueFamilyIndices.graphicsFamily = LastOf(GraphicsMatches(ScannedFamilies, lastScan.examined))
        /\ queueFamilyIndices.transferFamily = LastOf(TransferMatches(ScannedFamilies, lastScan.examined))
        /\ queueFamilyIndices.presentFamily = LastOf(PresentMatches(ScannedFamilies, lastScan.examined))
        /\ lastScan.examined = StopsAt(ScannedFamilies)

\* Two graphics-capable families were examined before the transfer-only
\* family that completed the indices: the second one is the graphics family.
C15_Witness ==
    /\ lastScan.device # 0
    /\ Len(ScannedFamilies) = 3
    /\ GraphicsMatches(ScannedFamilies, 3) = {0, 1}
    /\ TransferMatches(ScannedFamilies, 3) = {2}
    /\ isComplete(queueFamilyIndices)
    /\ queueFamilyIndices.graphicsFamily = 1

\* C16: for a device whose single queue family is graphics-capable and
\* present-capable (so that it has no transfer-only family), all three indices
\* are that family's and the indices are complete.
C16_CombinedFamilyCompletes ==
    ( /\ lastScan.device # 0
      /\ Len(ScannedFamilies) = 1
      /\ GraphicsCapable(ScannedFamilies[1])
      /\ PresentCapable(ScannedFamilies[1]) ) =>
        /\ isComplete(queueFamilyIndices)
        /\ queueFamilyIndices.graphicsFamily = 0
        /\ queueFamilyIndices.transferFamily = 0
        /\ queueFamilyIndices.presentFamily = 0

\* C17: isDeviceSuitable returns true exactly when the indices it found are
\* complete, every required extension is among the device's extensions, and
\* the surface reports at least one format and at least one present mode.
C17_SuitableIff ==
    lastScan.device # 0 =>
        ( lastScan.suitable <=>
            /\ isComplete(queueFamilyIndices)
            /\ \A e \in deviceExtensions : e \in devices[lastScan.device].extensions
            /\ devices[lastScan.device].formats >= 1
            /\ devices[lastScan.device].presentModes >= 1 )

\* A device with complete indices, the extensions, a format and a present mode was found suitable.
C17_Witness ==
    /\ lastScan.device # 0
    /\ lastScan.suitable
    /\ isComplete(queueFamilyIndices)
    /\ devices[lastScan.device].formats = 1

\* The positions of the suitable devices in the enumeration.
SuitableDevices ==
    { i \in 1 .. Len(devices) :
        /\ isComplete(findQueueFamilies(devices[i]).indices)
        /\ deviceExtensions \subseteq devices[i].extensions
        /\ devices[i].formats >= 1
        /\ devices[i].presentModes >= 1 }

\* C18: pickPhysicalDevice throws only when no device is enumerated or none is
\* suitable, and then no logical device is created; with a suitable device it
\* does not throw and returns with the first suitable device of the
\* enumeration selected.
C18_PickFirstSuitable ==
    /\ pickPc = "throw" => (SuitableDevices = {} /\ physicalDevice = VK_NULL_HANDLE)
    /\ SuitableDevices = {} => (pickPc \notin {"picked", "device"} /\ ~logicalDevice)
    /\ pickPc \in {"picked", "device"} =>
          (SuitableDevices # {} /\ physicalDevice = FirstOf(SuitableDevices))
    /\ logicalDevice => physicalDevice # VK_NULL_HANDLE
    /\ pickPc = "check" => (physicalDevice = VK_NULL_HANDLE <=> SuitableDevices = {})

\* The second of three devices was selected: the first is unsuitable, the third suitable too.
C18_Witness ==
    /\ pickPc = "device"
    /\ logicalDevice
    /\ Len(devices) = 3
    /\ SuitableDevices = {2, 3}
    /\ physicalDevice = 2

----------------------------------------------------------------------------
(* Properties of the layout transitions (SpecImage) *)

\* The (old, new) pairs transitionImageLayout supports.
SupportedTransitions ==
    { << "VK_IMAGE_LAYOUT_UNDEFINED", "VK_IMAGE_LAYOUT_TRANSFER_DST_OPTIMAL" >>,
      << "VK_IMAGE_LAYOUT_TRANSFER_DST_OPTIMAL", "VK_IMAGE_LAYOUT_SHADER_READ_ONLY_OPTIMAL" >>,
      << "VK_IMAGE_LAYOUT_UNDEFINED", "VK_IMAGE_LAYOUT_DEPTH_STENCIL_ATTACHMENT_OPTIMAL" >> }

\* C19: a transitionImageLayout call whose (old, new) pair is not one of the
\* three supported pairs throws, begins and ends no command buffer, records
\* no barrier and leaves the recorded layout as it was.
C19_UnsupportedTransitionFails ==
    \A k \in 1 .. Len(imageLog) :
        << imageLog[k].oldLayout, imageLog[k].newLayout >> \notin SupportedTransitions =>
            /\ imageLog[k].threw
            /\ imageLog[k].begun = 0
            /\ imageLog[k].barriers = 0
            /\ imageLog[k].ended = 0
            /\ imageLog[k].layoutAfter = imageLog[k].oldLayout
            /\ (k = Len(imageLog) => imageLayout = imageLog[k].oldLayout)

\* ShaderReadOnly -> Undefined was asked for after the two upload transitions.
C19_Witness ==
    /\ Len(imageLog) = 3
    /\ imageLog[3].oldLayout = "VK_IMAGE_LAYOUT_SHADER_READ_ONLY_OPTIMAL"
    /\ imageLog[3].newLayout = "VK_IMAGE_LAYOUT_UNDEFINED"
    /\ imageLog[3].threw
    /\ imageLayout = "VK_IMAGE_LAYOUT_SHADER_READ_ONLY_OPTIMAL"

----------------------------------------------------------------------------
(* Properties of CleanUp and Init (Spec) *)

\* The position of the Init call that creates object o.
CreatedAt(o) == CHOOSE k \in 1 .. Len(InitSteps) : o \in Made(InitSteps[k])

\* The objects the logical device owns: all but the instance-level ones.
DeviceOwned == Objects \ {"instance", "debugMessenger", "surface", "physicalDevice", "logicalDevice"}

\* C21: while CleanUp destroys, an object is gone only if every object created
\* after it is gone too (the destroy order is the reverse of the creation
\* order), and the logical device is gone only when every object it owns is gone.
C21_CleanUpReverseOrder ==
    pc \in {"cu_destroy", "done"} =>
        /\ \A a, b \in Objects :
              (CreatedAt(a) < CreatedAt(b) /\ a \notin alive) => b \notin alive
        /\ "logicalDevice" \notin alive => DeviceOwned \cap alive = {}

----------------------------------------------------------------------------
\* Properties of one Draw call (Spec)

\* The steps of a Draw call that returns normally, up to the present.
DrawOrder ==
    << "waitForFences", "acquireNextImage", "resetFences", "resetCommandBuffer",
       "beginCommandBuffer", "beginRenderPass", "bindPipeline", "bindVertexBuffers",
       "bindIndexBuffer", "setViewport", "setScissor", "bindDescriptorSets",
       "drawIndexed", "endRenderPass", "endCommandBuffer",
       "updateUniformBuffer", "queueSubmit", "queuePresent" >>

\* The call has met no failure so far: the acquire (if done) delivered an
\* image and no fatal error was raised.
SuccessPath ==
    /\ InDraw
    /\ call.fatal = "none"
    /\ call.acquire \in {"none", VK_SUCCESS, VK_SUBOPTIMAL_KHR}

\* C23: on the success path the steps a Draw call has performed are always an
\* initial part of the order fence wait, acquire, fence reset, command buffer
\* reset, recording (begin, begin render pass, bind pipeline, vertex and index
\* buffers, viewport, scissor, descriptor set, indexed draw, end render pass,
\* end), uniform write, submit, present; the recording names the framebuffer
\* of the acquired image and the descriptor set of the slot; and the slot
\* index is advanced only after all of them.
C23_DrawOrder ==
    SuccessPath =>
        /\ IsPrefix(call.trace, DrawOrder)
        /\ call.recorded =>
              /\ commandBuffers[call.slot].framebuffer = imageIndex
              /\ commandBuffers[call.slot].descriptorSet = call.slot
        /\ pc = "advance" => (call.trace = DrawOrder /\ currentFrame = call.slot)

\* A Draw call on the second slot has presented with success and is about to
\* advance the slot index.
C23_Witness ==
    /\ SuccessPath
    /\ pc = "advance"
    /\ call.slot = 1
    /\ call.present = VK_SUCCESS
    /\ ~call.recreated
    /\ call.trace = DrawOrder

\* The uses of semaphores and fences by the GPU operations of a Draw call.
SyncUses == {"acquire.semaphore", "submit.wait", "submit.signal", "submit.fence", "present.wait"}

\* C24: the acquire, the submission and the present of a Draw call on slot S
\* use S's image-available semaphore, S's render-finished semaphore and S's
\* fence only, and a submission that was queued waits on a semaphore that the
\* acquire of the same call signals (the acquire delivered an image).
C24_SemaphoreChain ==
    InDraw =>
        /\ \A t \in call.touched : t[1] \in SyncUses => t[2] = call.slot
        /\ call.presented => << "present.wait", call.slot >> \in call.touched
        /\ call.submitted =>
              /\ << "submit.wait", call.slot >> \in call.touched
              /\ << "acquire.semaphore", call.slot >> \in call.touched
              /\ ImageAcquired(call.acquire)

\* C25: a Draw call on slot S uses command buffer S, semaphores S, fence S,
\* descriptor set S and drawBuffers[2 + S] only; descriptor set i is bound to
\* drawBuffers[2 + i] for every slot i; and the uniform buffer the call wrote
\* is the one the commands it recorded read through their descriptor set.
C25_SlotIsolation ==
    /\ \A i \in Slots : DescriptorSetBuffer(i) = 2 + i
    /\ InDraw =>
          /\ \A t \in call.touched :
                t[2] = IF t[1] = "update.drawBuffer" THEN 2 + call.slot ELSE call.slot
          /\ (call.recorded /\ call.uboWritten) =>
                /\ commandBuffers[call.slot].descriptorSet = call.slot
                /\ << "update.drawBuffer", commandBuffers[call.slot].uniformBuffer >>
                       \in call.touched

\* A Draw call on the second slot has recorded its commands, written its
\* uniform buffer and been submitted.
C25_Witness ==
    /\ InDraw
    /\ call.slot = 1
    /\ call.recorded
    /\ call.uboWritten
    /\ call.submitted
    /\ << "update.drawBuffer", 3 >> \in call.touched

----------------------------------------------------------------------------
\* Properties of Init (Spec)

\* The stages of construction: device, swapchain and image views, render
\* pass and pipeline, framebuffers, command pools and resource buffers,
\* descriptor pool and sets, command buffers, sync objects.
InitStage(o) ==
    CASE o \in {"instance", "debugMessenger", "surface", "physicalDevice", "logicalDevice"} -> 1
      [] o \in {"swapChain", "imageViews"} -> 2
      [] o \in {"renderPass", "graphicsPipeline"} -> 3
      [] o = "framebuffers" -> 4
      [] o \in {"graphicsCommandPool", "transferCommandPool", "drawBuffers"} -> 5
      [] o \in {"descriptorPool", "descriptorSets"} -> 6
      [] o = "commandBuffers" -> 7
      [] o = "syncObjects" -> 8

\* C26: while Init runs, an object exists only if every object of an earlier
\* stage exists (the stages are created in their order), and every object
\* the next creation call reads has been created by an earlier call.
C26_InitOrder ==
    pc = "init" =>
        /\ \A a \in alive, b \in Objects : InitStage(b) < InitStage(a) => b \in alive
        /\ step <= Len(InitSteps) => Uses(InitSteps[step]) \subseteq alive

\* Init has created everything but the sync objects and is about to create them.
C26_Witness ==
    /\ pc = "init"
    /\ step = Len(InitSteps)
    /\ InitSteps[step] = "syncObjects"
    /\ alive = Objects \ {"syncObjects"}

----------------------------------------------------------------------------
(* Properties of ImageBuffer (SpecImage) *)

\* The names of the calls made for the image, in order.
ImageOpNames == [k \in 1 .. Len(imageOps) |-> imageOps[k].op]

\* Calls that create or use a staging buffer, an image, device memory, a
\* layout transition or a copy.
ResourceOps == {"MemBuffer", "vkMapMemory", "memcpy", "vkUnmapMemory", "vkCreateImage",
                "vkAllocateMemory", "vkBindImageMemory", "beginCommandBuffer",
                "vkCmdPipelineBarrier", "vkCmdCopyBufferToImage", "endCommandBuffer"}

\* C22: when stbi_load returns null, initTextureImageBuffer ends with the
\* exception, and no staging buffer, image, memory, transition or copy call
\* was made: the load is the only call.
C22_LoadFailureCreatesNothing ==
    (imageKind = "texture" /\ ~imageOps[1].ok) =>
        /\ imagePc = "load_failed"
        /\ ImageOpNames = << "stbi_load" >>
        /\ \A k \in 1 .. Len(imageOps) : imageOps[k].op \notin ResourceOps
        /\ imageLog = << >>

\* The load failed and the initialiser has thrown.
C22_Witness ==
    /\ imageKind = "texture"
    /\ imagePc = "load_failed"
    /\ ~imageOps[1].ok

TerminalLayouts == { "VK_IMAGE_LAYOUT_SHADER_READ_ONLY_OPTIMAL",
                     "VK_IMAGE_LAYOUT_DEPTH_STENCIL_ATTACHMENT_OPTIMAL" }

\* C27: the recorded layout is always undefined, transfer-destination,
\* shader-read-only or depth-stencil-attachment; every call starts from the
\* layout the call before it left; a call that succeeds follows one of the
\* three edges and leaves the requested layout; and every call made in
\* shader-read-only or depth-stencil-attachment fails and leaves the layout.
C27_LayoutStateMachine ==
    /\ imageLayout \in { "VK_IMAGE_LAYOUT_UNDEFINED", "VK_IMAGE_LAYOUT_TRANSFER_DST_OPTIMAL" }
                          \cup TerminalLayouts
    /\ imageLog # << >> =>
          /\ imageLog[1].oldLayout = "VK_IMAGE_LAYOUT_UNDEFINED"
          /\ imageLog[Len(imageLog)].layoutAfter = imageLayout
    /\ \A k \in 1 .. Len(imageLog) :
          /\ k > 1 => imageLog[k].oldLayout = imageLog[k - 1].layoutAfter
          /\ ~imageLog[k].threw =>
                /\ imageLog[k].layoutAfter = imageLog[k].newLayout
                /\ << imageLog[k].oldLayout, imageLog[k].newLayout >> \in SupportedTransitions
          /\ imageLog[k].oldLayout \in TerminalLayouts =>
                /\ imageLog[k].threw
                /\ imageLog[k].layoutAfter = imageLog[k].oldLayout

\* A plain image was moved to depth-stencil-attachment and two further
\* transitions were refused.
C27_Witness ==
    /\ imageKind = "plain"
    /\ Len(imageLog) = 3
    /\ ~imageLog[1].threw
    /\ imageLog[1].newLayout = "VK_IMAGE_LAYOUT_DEPTH_STENCIL_ATTACHMENT_OPTIMAL"
    /\ imageLog[2].threw
    /\ imageLog[2].newLayout = "VK_IMAGE_LAYOUT_SHADER_READ_ONLY_OPTIMAL"
    /\ imageLog[3].threw
    /\ imageLayout = "VK_IMAGE_LAYOUT_DEPTH_STENCIL_ATTACHMENT_OPTIMAL"

\* The calls of a texture upload, in the claimed order.
TextureUploadOrder ==
    << "stbi_load", "MemBuffer", "vkMapMemory", "memcpy", "vkUnmapMemory", "stbi_image_free",
       "vkCreateImage", "vkAllocateMemory", "vkBindImageMemory",
       "beginCommandBuffer", "vkCmdPipelineBarrier", "endCommandBuffer",
       "beginCommandBuffer", "vkCmdCopyBufferToImage", "endCommandBuffer",
       "beginCommandBuffer", "vkCmdPipelineBarrier", "endCommandBuffer",
       "vkDestroyBuffer", "vkFreeMemory" >>

\* The calls of a depth image's initialisation.
DepthInitOrder ==
    << "vkCreateImage", "vkAllocateMemory", "vkBindImageMemory",
       "beginCommandBuffer", "vkCmdPipelineBarrier", "endCommandBuffer" >>

\* C28: the calls made for a texture are always an initial part of map, copy
\* pixels, unmap, transition to transfer-destination, buffer-to-image copy,
\* transition to shader-read-only; the copy is recorded only while the
\* recorded layout is transfer-destination; the finished texture is in
\* shader-read-only; a depth image makes the single transition undefined to
\* depth-stencil-attachment and no copy.
C28_UploadOrder ==
    /\ \A k \in 1 .. Len(imageOps) :
          imageOps[k].op = "vkCmdCopyBufferToImage" =>
              imageOps[k].layout = "VK_IMAGE_LAYOUT_TRANSFER_DST_OPTIMAL"
    /\ imageKind = "texture" =>
          /\ IsPrefix(ImageOpNames, TextureUploadOrder)
          /\ imagePc = "ready" =>
                /\ ImageOpNames = TextureUploadOrder
                /\ imageLayout = "VK_IMAGE_LAYOUT_SHADER_READ_ONLY_OPTIMAL"
                /\ imageLog[1].layoutAfter = "VK_IMAGE_LAYOUT_TRANSFER_DST_OPTIMAL"
                /\ imageLog[2].layoutAfter = "VK_IMAGE_LAYOUT_SHADER_READ_ONLY_OPTIMAL"
    /\ imageKind = "depth" =>
          /\ IsPrefix(ImageOpNames, DepthInitOrder)
          /\ imagePc = "ready" =>
                /\ ImageOpNames = DepthInitOrder
                /\ imageLog[1].oldLayout = "VK_IMAGE_LAYOUT_UNDEFINED"
                /\ imageLog[1].layoutAfter = "VK_IMAGE_LAYOUT_DEPTH_STENCIL_ATTACHMENT_OPTIMAL"
                /\ imageLayout = "VK_IMAGE_LAYOUT_DEPTH_STENCIL_ATTACHMENT_OPTIMAL"

\* A texture upload has run to its end.
C28_Witness ==
    /\ imageKind = "texture"
    /\ imagePc = "ready"
    /\ ImageOpNames = TextureUploadOrder
    /\ imageLayout = "VK_IMAGE_LAYOUT_SHADER_READ_ONLY_OPTIMAL"

\* The queue on which the claim places each transition.
ClaimedQueue(oldLayout, newLayout) ==
    IF << oldLayout, newLayout >>
         = << "VK_IMAGE_LAYOUT_UNDEFINED", "VK_IMAGE_LAYOUT_TRANSFER_DST_OPTIMAL" >>
    THEN "transferQueue"
    ELSE "graphicsQueue"

\* C29: every transition that succeeds begins one command buffer, records
\* one barrier and ends the buffer, on the transfer queue for undefined to
\* transfer-destination and on the graphics queue for the other two; every
\* barrier and every buffer-to-image copy is enclosed by the begin and the
\* end of a command buffer of its own queue, and the copy is on the transfer
\* queue.
C29_TransitionQueues ==
    /\ \A k \in 1 .. Len(imageLog) :
          ~imageLog[k].threw =>
              /\ imageLog[k].begun = 1
              /\ imageLog[k].barriers = 1
              /\ imageLog[k].ended = 1
              /\ imageLog[k].queue = ClaimedQueue(imageLog[k].oldLayout, imageLog[k].newLayout)
    /\ \A k \in 1 .. Len(imageOps) :
          /\ imageOps[k].op = "vkCmdCopyBufferToImage" => imageOps[k].queue = "transferQueue"
          /\ imageOps[k].op \in {"vkCmdCopyBufferToImage", "vkCmdPipelineBarrier"} =>
                /\ k > 1 /\ k < Len(imageOps)
                /\ imageOps[k - 1].op = "beginCommandBuffer"
                /\ imageOps[k + 1].op = "endCommandBuffer"
                /\ imageOps[k - 1].queue = imageOps[k].queue
                /\ imageOps[k + 1].queue = imageOps[k].queue

\* A texture upload has made its copy on the transfer queue and its second
\* transition on the graphics queue.
C29_Witness ==
    /\ imageKind = "texture"
    /\ Len(imageLog) = 2
    /\ imageLog[1].queue = "transferQueue"
    /\ imageLog[2].queue = "graphicsQueue"
    /\ \E k \in 1 .. Len(imageOps) :
          imageOps[k].op = "vkCmdCopyBufferToImage" /\ imageOps[k].queue = "transferQueue"

\* A barrier of the log that hands the image from the transfer family to the
\* graphics family and was executed on queue q.
HandoffOn(q) ==
    \E k \in 1 .. Len(imageLog) :
        /\ ~imageLog[k].threw
        /\ imageLog[k].srcQueueFamilyIndex = "transferQueueFamily"
        /\ imageLog[k].dstQueueFamilyIndex = "graphicsQueueFamily"
        /\ imageLog[k].queue = q

\* C30: a finished texture upload has executed a release (transfer family to
\* graphics family) on the transfer queue and the matching acquire on the
\* graphics queue, and the barrier undefined to transfer-destination names
\* the transfer family as source and as destination.
C30_OwnershipHandoff ==
    /\ \A k \in 1 .. Len(imageLog) :
          (~imageLog[k].threw /\ imageLog[k].newLayout = "VK_IMAGE_LAYOUT_TRANSFER_DST_OPTIMAL") =>
              /\ imageLog[k].srcQueueFamilyIndex = "transferQueueFamily"
              /\ imageLog[k].dstQueueFamilyIndex = "transferQueueFamily"
    /\ (imageKind = "texture" /\ imagePc = "ready") =>
          /\ HandoffOn("graphicsQueue")
          /\ HandoffOn("transferQueue")

----------------------------------------------------------------------------
(* Further properties of physical device selection (SpecDevice) *)

\* C31: of the indices findQueueFamilies returned, the graphics index names
\* a family with graphics, transfer and sparse binding, the transfer index a
\* family with transfer and sparse binding and without graphics, the present
\* index a family the surface can be presented from; and a slot is unset
\* only if no examined family satisfies its predicate.
C31_IndicesSatisfyPredicates ==
    lastScan.device # 0 =>
        LET fams == ScannedFamilies
            ix == queueFamilyIndices
            n == lastScan.examined
        IN  /\ IF ix.graphicsFamily = NoIndex
               THEN GraphicsMatches(fams, n) = {}
               ELSE ix.graphicsFamily \in GraphicsMatches(fams, n)
            /\ IF ix.transferFamily = NoIndex
               THEN TransferMatches(fams, n) = {}
               ELSE ix.transferFamily \in TransferMatches(fams, n)
            /\ IF ix.presentFamily = NoIndex
               THEN PresentMatches(fams, n) = {}
               ELSE ix.presentFamily \in PresentMatches(fams, n)

\* A device with a graphics family lacking sparse binding, then a
\* transfer-only family: the graphics slot is unset, the transfer slot set.
C31_Witness ==
    /\ lastScan.device # 0
    /\ Len(ScannedFamilies) = 2
    /\ ScannedFamilies[1].queueFlags = {"GRAPHICS", "COMPUTE", "TRANSFER"}
    /\ ScannedFamilies[1].present
    /\ queueFamilyIndices.graphicsFamily = NoIndex
    /\ queueFamilyIndices.transferFamily = 1
    /\ queueFamilyIndices.presentFamily = 0

\* C40: once pickPhysicalDevice has returned, the stored indices are those
\* isDeviceSuitable computed for the selected device: the device examined
\* last is the selected one, the indices are complete, and each names a
\* family of the selected device that satisfies the slot's predicate.
C40_StoredIndicesOfSelected ==
    pickPc \in {"picked", "device"} =>
        /\ physicalDevice # VK_NULL_HANDLE
        /\ lastScan.device = physicalDevice
        /\ isComplete(queueFamilyIndices)
        /\ LET fams == devices[physicalDevice].queueFamilies
           IN  /\ queueFamilyIndices.graphicsFamily \in GraphicsMatches(fams, Len(fams))
               /\ queueFamilyIndices.transferFamily \in TransferMatches(fams, Len(fams))
               /\ queueFamilyIndices.presentFamily \in PresentMatches(fams, Len(fams))

\* The second of three devices was selected and the third, which has a
\* single family, was never examined; the logical device was created.
C40_Witness ==
    /\ pickPc = "device"
    /\ Len(devices) = 3
    /\ physicalDevice = 2
    /\ lastScan.device = 2
    /\ Len(devices[3].queueFamilies) = 1
    /\ Len(devices[2].queueFamilies) = 3
    /\ queueFamilyIndices.graphicsFamily = 1
    /\ queueFamilyIndices.transferFamily = 0

----------------------------------------------------------------------------
(* Further properties of swapchain creation (SpecSwap) *)

\* C32: the image count of a created swapchain is minImageCount + 1, or
\* maxImageCount when that is greater than 0 and smaller than
\* minImageCount + 1; it is never below minImageCount.
C32_ImageCount ==
    IsChain(chain) =>
        LET c == chainInputs.support.capabilities
        IN  /\ (c.maxImageCount > 0 /\ c.minImageCount + 1 > c.maxImageCount)
                  => chain.images = c.maxImageCount
            /\ ~(c.maxImageCount > 0 /\ c.minImageCount + 1 > c.maxImageCount)
                  => chain.images = c.minImageCount + 1
            /\ c.maxImageCount = 0 => chain.images = c.minImageCount + 1
            /\ chain.images >= c.minImageCount

\* A swapchain was created on a surface with minImageCount = maxImageCount = 2.
C32_Witness ==
    /\ IsChain(chain)
    /\ chainInputs.support.capabilities.minImageCount = 2
    /\ chainInputs.support.capabilities.maxImageCount = 2
    /\ chain.images = 2

\* The positions of the preferred format in a list.
PreferredAt(formats) ==
    { i \in 1 .. Len(formats) :
        /\ formats[i].format = "VK_FORMAT_B8G8R8A8_SRGB"
        /\ formats[i].colorSpace = "VK_COLOR_SPACE_SRGB_NONLINEAR_KHR" }

\* C33: the format and colour space of a created swapchain are those of an
\* entry of the reported list: the preferred pair (8-bit BGRA sRGB, sRGB
\* non-linear) if the list has it, otherwise the first entry.
C33_SurfaceFormat ==
    IsChain(chain) =>
        LET formats == chainInputs.support.formats
            chosen == [format |-> chain.imageFormat, colorSpace |-> chain.imageColorSpace]
        IN  /\ \E i \in 1 .. Len(formats) : formats[i] = chosen
            /\ PreferredAt(formats) # {} =>
                  /\ chosen.format = "VK_FORMAT_B8G8R8A8_SRGB"
                  /\ chosen.colorSpace = "VK_COLOR_SPACE_SRGB_NONLINEAR_KHR"
            /\ PreferredAt(formats) = {} => chosen = formats[1]

\* The preferred pair was chosen from a list that starts with the preferred
\* format in another colour space.
C33_Witness ==
    /\ IsChain(chain)
    /\ Len(chainInputs.support.formats) = 4
    /\ PreferredAt(chainInputs.support.formats) = {3, 4}
    /\ chain.imageFormat = "VK_FORMAT_B8G8R8A8_SRGB"
    /\ chain.imageColorSpace = "VK_COLOR_SPACE_SRGB_NONLINEAR_KHR"

\* C34: the present mode of a created swapchain is mailbox exactly when
\* mailbox is in the reported list, and FIFO otherwise.
C34_PresentMode ==
    IsChain(chain) =>
        LET modes == chainInputs.support.presentModes
            hasMailbox == \E i \in 1 .. Len(modes) : modes[i] = "VK_PRESENT_MODE_MAILBOX_KHR"
        IN  /\ chain.presentMode = "VK_PRESENT_MODE_MAILBOX_KHR" <=> hasMailbox
            /\ ~hasMailbox => chain.presentMode = "VK_PRESENT_MODE_FIFO_KHR"

\* Mailbox was chosen from a list in which it is neither first nor last.
C34_Witness ==
    /\ IsChain(chain)
    /\ Len(chainInputs.support.presentModes) = 3
    /\ chainInputs.support.presentModes[2] = "VK_PRESENT_MODE_MAILBOX_KHR"
    /\ chain.presentMode = "VK_PRESENT_MODE_MAILBOX_KHR"

----------------------------------------------------------------------------
(* Further properties of Draw, recreateSwapChain and CleanUp (Spec) *)

\* C35: from the recording to the present of a Draw call, the image index is
\* one that the acquire of this call delivered (the acquire succeeded), it is
\* smaller than the number of framebuffers, and it is the index of the
\* framebuffer the recorded commands name.
C35_ImageIndexValid ==
    pc \in {"update", "submit", "present", "present_check"} =>
        /\ ImageAcquired(call.acquire)
        /\ imageIndex < swapChainFramebuffers
        /\ commandBuffers[call.slot].framebuffer = imageIndex

\* The objects Init creates on the logical device and CleanUp is to destroy.
CreatedOnDevice ==
    {"swapChain", "imageViews", "framebuffers", "renderPass", "graphicsPipeline",
     "graphicsCommandPool", "transferCommandPool", "drawBuffers", "descriptorPool",
     "syncObjects"}

\* C36: once CleanUp has destroyed the logical device, every object Init
\* created on it has been destroyed, and when CleanUp has returned none is left.
C36_AllDestroyedBeforeDevice ==
    /\ (pc \in {"cu_destroy", "done"} /\ "logicalDevice" \notin alive) =>
          \A o \in CreatedOnDevice : o \notin alive
    /\ pc = "done" => CreatedOnDevice \cap alive = {}

\* C37: recreateSwapChain waits for a window event only while the size it
\* read last is zero: having read a non-zero size it needs no further event.
C37_NoEventWaitAfterNonZeroSize ==
    pc = "rc_events" => sizeZero

\* C38: whenever neither Init nor recreateSwapChain nor CleanUp is running,
\* there are as many image views and as many framebuffers as swapchain
\* images, and the swapchain, its views and its framebuffers are alive and
\* of the same creation (the views and framebuffers were made from the
\* current swapchain, whose extent the framebuffers took).
C38_ViewsAndFramebuffersMatch ==
    (pc = "idle" \/ (InDraw /\ ~InRecreate)) =>
        /\ swapChainImages > 0
        /\ swapChainImageViews = swapChainImages
        /\ swapChainFramebuffers = swapChainImages
        /\ SwapChainObjects \subseteq alive
        /\ handles["imageViews"] = handles["swapChain"]
        /\ handles["framebuffers"] = handles["swapChain"]

\* A Draw call has returned after a recreation that made a swapchain of one image.
C38_Witness ==
    /\ pc = "idle"
    /\ handles["swapChain"] = 2
    /\ handles["framebuffers"] = 2
    /\ swapChainImages = 1
    /\ swapChainFramebuffers = 1
    /\ draws = 1

\* C39: the slot index keeps the value it had when the Draw call began until
\* the call's last statement, also when the call ends with a fatal error;
\* that statement is reached only after the present and without a fatal
\* error; and every Draw call that has returned, with or without a
\* recreation, has advanced the slot index by one modulo F.
C39_SlotAdvance ==
    /\ InDraw =>
          /\ currentFrame = call.slot
          /\ call.slot = (draws - 1) % MAX_FRAMES_IN_FLIGHT
    /\ pc = "fatal" => (call.fatal # "none" /\ currentFrame = call.slot)
    /\ pc = "advance" => (call.presented /\ call.fatal = "none")
    /\ pc = "idle" => currentFrame = draws % MAX_FRAMES_IN_FLIGHT

\* Two Draw calls have returned, one of them after a recreation triggered by
\* its present.
C39_Witness ==
    /\ pc = "idle"
    /\ draws = 2
    /\ handles["swapChain"] = 2
    /\ currentFrame = 2 % MAX_FRAMES_IN_FLIGHT

====
